---- MODULE Spec2Model ----
(***************************************************************************)
(* A model of mrT (Mr. Transaction): the append-only transaction log with  *)
(* an active file, an archive file, a last-transaction cell, the Match     *)
(* filter of the iterators, Archive's rollover and the export/import       *)
(* pipeline.                                                               *)
(*                                                                         *)
(* Files are modelled as sequences of lines; a line is the record          *)
(* [tag, key, val].  A transaction id is a natural number in the order the *)
(* UUID generator mints them; 0 stands for the empty string "".            *)
(***************************************************************************)
EXTENDS Integers, Sequences, FiniteSets, TLC

\* ---------------------------------------------------------------- bounds
MaxTxn == 3
MaxActs == 2
MaxArchive == 2
MaxComment == 1
MaxExport == 2
MaxFail == 1
MaxReopen == 1
MaxProcs == 2
MaxAt == 2
MaxCalls == 4

\* ------------------------------------------------------------- constants
NilLine == 0
TransactionLine == 1
ReplayLine == 2
CommentLine == 3
PutLine == 4
DeleteLine == 5

statePreMatch == 0
stateMatch == 1
statePostMatch == 2

\* error values
Nil == "nil"
ErrIsClosed == "ErrIsClosed"
ErrNoTxn == "ErrNoTxn"
ErrInvalidTxn == "ErrInvalidTxn"
ErrInvalidLine == "ErrInvalidLine"
ErrBody == "ErrBody"
ErrEOF == "EOF"
ErrParse == "ErrParse"
ErrVerify == "ErrVerify"
ErrEndEarly == "ErrEndEarly"
ErrFn == "ErrFn"
\* Not an error value: the goroutine panics on a call through a nil func.
Panic == "panic"

\* ------------------------------------------------------------------ state
VARIABLES
    f,          \* MrT.f: the active file, a sequence of lines
    af,         \* MrT.af: the archive file
    ltxn,       \* MrT.ltxn: the last-txn cell
    closed,     \* MrT.closed
    ug,         \* MrT.ug: the last id the generator minted
    txn,        \* the Txn call that holds the appender between its write and its Store
    nm,         \* a second log (the import target): [f, af, ltxn, closed]
    w,          \* the writer handed to Export / the reader handed to Import
    ret,        \* what the last returned call returned (and delivered to its callback)
    committed,  \* history: the Txn calls that returned success, in order
    narch,      \* history: Archive calls made
    ncomm,      \* history: Comment calls made
    nexp,       \* history: Export calls made
    nfail,      \* history: callbacks (Txn bodies, populate) that returned an error
    nopen,      \* history: New calls made on the closed log
    rt,         \* history: phase of the export/import round trip
    impTxn,     \* the caller's lastTxn: what the last successful Import returned
    lastw,      \* history: the last call that wrote to the log's files or cell
    cb,         \* the callback handed to the last iterator call: what it returns, and at which invocation
    hnd,        \* cfile handles on the active file: the exclusive holder and the readers
    lbuf,       \* MrT.lbuf: the mutex holder and the scratch buffer
    pc,         \* the call each goroutine is in and how far it has got
    own,        \* history: for every line of the active file, the call that wrote it
    view,       \* history: what the files held when each reader opened and what it read
    disk,       \* what of each file has reached the disk: [f, af]
    rdrs,       \* history: the reader handles the last Export acquired, each with the Close calls made on it
    wire        \* the line codec at byte level: a file's bytes, the lines written to it, getKV's input and what the readers returned

cvars == <<hnd, lbuf, pc, own, view, disk, wire, rdrs>>
vars == <<f, af, ltxn, closed, ug, txn, nm, w, ret, committed, narch, ncomm, nexp, nfail, nopen, rt, impTxn, lastw, cb, cvars>>

\* ------------------------------------------------------------------ lines
\* shasher: the tag HashWriter.Sign appends binds the token and every byte
\* written; a stream that was never signed carries NoSig.
Sign(token, data) == [token |-> token, data |-> data]
NoSig == Sign("", <<>>)
NoW == [data |-> <<>>, sig |-> NoSig]
Line(lineType, key, value) == [tag |-> lineType, key |-> key, val |-> value]

\* The Put/Delete operations a Txn body (or populate) may issue.
Put(k, v) == [put |-> TRUE, key |-> k, val |-> v]
Delete(k) == [put |-> FALSE, key |-> k, val |-> 0]

\* The i-th operation of the body that works on key k: Put, Delete, Put, ...
\* A Txn body works on the key that carries its own transaction id, so that
\* every Put/Delete line tells which call issued it; populate works on the
\* snapshot keys, which lie above every transaction id.
BodyOp(k, i) == IF i % 2 = 1 THEN Put(k, i) ELSE Delete(k)
Body(k, n) == [i \in 1 .. n |-> BodyOp(k, i)]
SnapKey == MaxTxn + 1

\* MrT.writeLine: append one encoded line to the scratch buffer.
writeLine(buf, lineType, key, value) == Append(buf, Line(lineType, key, value))

\* Txn.Put / Txn.Delete issued in order by a body.
RECURSIVE runBody(_, _)
runBody(buf, body) ==
    IF body = <<>> THEN buf
    ELSE runBody(writeLine(buf,
                           IF Head(body).put THEN PutLine ELSE DeleteLine,
                           Head(body).key, Head(body).val),
                 Tail(body))

\* ----------------------------------------------------------------- seeker
\* nextTxn: the index of the first Transaction line after cursor c
\* (c = number of lines before the cursor), 0 when there is none.
RECURSIVE nextTxn(_, _)
nextTxn(file, c) ==
    IF c >= Len(file) THEN 0
    ELSE IF file[c + 1].tag = TransactionLine THEN c + 1
    ELSE nextTxn(file, c + 1)

\* peekFirstTxn: id of the first Transaction line of the file, 0 with ErrNoTxn.
peekFirstTxn(file) ==
    LET n == nextTxn(file, 0)
    IN IF n = 0 THEN [err |-> ErrNoTxn, id |-> 0] ELSE [err |-> Nil, id |-> file[n].key]

\* replayID: key of the first line when it is a Replay line.
replayID(file) ==
    IF file = <<>> THEN [err |-> ErrEOF, id |-> 0]
    ELSE IF file[1].tag # ReplayLine THEN [err |-> ErrNoTxn, id |-> 0]
    ELSE [err |-> Nil, id |-> file[1].key]

\* uuid.ParseStr: the empty string is no UUID.
ParseOK(tid) == tid # 0

\* An isInCurrent without the shortcut for the empty id.
isInCurrentNoEmpty(m, txnID) ==
    LET r == replayID(m.f)
        p == peekFirstTxn(m.f)
    IN IF r.err = Nil /\ r.id = txnID THEN TRUE
       ELSE IF p.err # Nil THEN FALSE
       ELSE IF ~ParseOK(txnID) \/ ~ParseOK(p.id) THEN FALSE
       ELSE txnID >= p.id

\* MrT.isInCurrent
isInCurrent(m, txnID) ==
    IF txnID = 0 THEN TRUE
    ELSE LET r == replayID(m.f)
             p == peekFirstTxn(m.f)
         IN IF r.err = Nil /\ r.id = txnID THEN TRUE
            ELSE IF p.err # Nil THEN FALSE
            ELSE IF ~ParseOK(txnID) \/ ~ParseOK(p.id) THEN FALSE
            ELSE txnID >= p.id

\* ----------------------------------------------------------- Match filter
\* A NewMatch that forgets the empty id: every stream starts before the match.
NewMatchPre(txnID) == statePreMatch

\* NewMatch
NewMatch(txnID) == IF txnID = 0 THEN statePostMatch ELSE statePreMatch

\* A filter that passes the matching line itself: the match opens the stream.
MatchFilterEager(state, tid, ln) ==
    IF state = statePostMatch THEN statePostMatch
    ELSE IF ln.tag \in {TransactionLine, ReplayLine}
         THEN IF state = statePreMatch
              THEN (IF tid = ln.key THEN statePostMatch ELSE statePreMatch)
              ELSE statePostMatch
         ELSE state

\* Match.Filter: the state after the line; the line passes iff it is PostMatch.
MatchFilter(state, tid, ln) ==
    IF state = statePostMatch THEN statePostMatch
    ELSE IF ln.tag \in {TransactionLine, ReplayLine}
         THEN IF state = statePreMatch
              THEN (IF tid = ln.key THEN stateMatch ELSE statePreMatch)
              ELSE statePostMatch
         ELSE state

\* seeker.ReadLines(filter.processLine) from cursor c: the lines delivered
\* to the callback and the match state at the end.
RECURSIVE readLines(_, _, _, _, _)
readLines(file, c, state, tid, out) ==
    IF c >= Len(file) THEN [state |-> state, out |-> out]
    ELSE LET st == MatchFilter(state, tid, file[c + 1])
         IN readLines(file, c + 1, st, tid,
                      IF st = statePostMatch THEN Append(out, file[c + 1]) ELSE out)

\* MrT.filter
filter(m, txnID, archive) ==
    IF archive /\ ~isInCurrent(m, txnID)
    THEN LET a == readLines(m.af, 0, NewMatch(txnID), txnID, <<>>)
             n == nextTxn(m.f, 0)
         IN IF n = 0 THEN [err |-> Nil, out |-> a.out]
            ELSE [err |-> Nil, out |-> readLines(m.f, n - 1, a.state, txnID, a.out).out]
    ELSE [err |-> Nil, out |-> readLines(m.f, 0, NewMatch(txnID), txnID, <<>>).out]

\* MrT.Filter + MrT.ForEach: the decoded lines handed to fn.
ForEachOp(m, txnID, archive) ==
    IF m.closed THEN [err |-> ErrIsClosed, out |-> <<>>]
    ELSE IF txnID # 0 /\ txnID = m.ltxn THEN [err |-> Nil, out |-> <<>>]
    ELSE filter(m, txnID, archive)

\* The error the callback returns at its n-th invocation.
fnResult(c, n) == IF n = c.at THEN c.what ELSE Nil

\* seeker.ReadLines(filter.processLine) from cursor c with a callback that
\* may return an error: ReadLines stops at the first non-nil result and
\* returns it, except that ErrEndEarly is returned as nil.
RECURSIVE readLinesFn(_, _, _, _, _, _)
readLinesFn(file, c, state, tid, out, fn) ==
    IF c >= Len(file) THEN [state |-> state, out |-> out, err |-> Nil]
    ELSE LET st == MatchFilter(state, tid, file[c + 1])
         IN IF st # statePostMatch THEN readLinesFn(file, c + 1, st, tid, out, fn)
            ELSE LET o == Append(out, file[c + 1])
                     r == fnResult(fn, Len(o))
                 IN IF r = Nil THEN readLinesFn(file, c + 1, st, tid, o, fn)
                    ELSE [state |-> st, out |-> o,
                          err |-> IF r = ErrEndEarly THEN Nil ELSE r]

\* MrT.filter with such a callback: a nil result of the archive scan,
\* whether the scan reached the end or was ended early, leads on to the
\* active file.
filterFn(m, txnID, archive, fn) ==
    IF archive /\ ~isInCurrent(m, txnID)
    THEN LET a == readLinesFn(m.af, 0, NewMatch(txnID), txnID, <<>>, fn)
             n == nextTxn(m.f, 0)
         IN IF a.err # Nil THEN [err |-> a.err, out |-> a.out]
            ELSE IF n = 0 THEN [err |-> Nil, out |-> a.out]
            ELSE LET b == readLinesFn(m.f, n - 1, a.state, txnID, a.out, fn)
                 IN [err |-> b.err, out |-> b.out]
    ELSE LET b == readLinesFn(m.f, 0, NewMatch(txnID), txnID, <<>>, fn)
         IN [err |-> b.err, out |-> b.out]

\* MrT.Filter + MrT.ForEach with such a callback.
ForEachFnOp(m, txnID, archive, fn) ==
    IF m.closed THEN [err |-> ErrIsClosed, out |-> <<>>]
    ELSE IF txnID # 0 /\ txnID = m.ltxn THEN [err |-> Nil, out |-> <<>>]
    ELSE filterFn(m, txnID, archive, fn)

\* MrT.LastTxn
LastTxnOp(m) ==
    IF m.closed THEN [err |-> ErrIsClosed, id |-> 0] ELSE [err |-> Nil, id |-> m.ltxn]

\* The startup scan of New: the key of the last Transaction line of the
\* active file.
RECURSIVE scanLastTxn(_, _, _)
scanLastTxn(file, c, last) ==
    IF c >= Len(file) THEN last
    ELSE scanLastTxn(file, c + 1,
                     IF file[c + 1].tag = TransactionLine THEN file[c + 1].key ELSE last)

\* ------------------------------------------------------------ ForEachTxn
NoTi == [ID |-> 0, Actions |-> <<>>, open |-> FALSE]
\* An ActionInfo that records every operation as a Put.
newActionInfoPut(isPut, key, value) == [put |-> TRUE, key |-> key, val |-> value]

newActionInfo(isPut, key, value) == [put |-> isPut, key |-> key, val |-> value]

\* A flush that hands the aggregate to fn and leaves it open.
txnFlushKeep(fe) ==
    IF ~fe.ti.open THEN fe
    ELSE [fe EXCEPT !.out = Append(@, [ID |-> fe.ti.ID, Actions |-> fe.ti.Actions])]

\* A flush that forgets the open aggregate instead of handing it to fn.
txnFlushDrop(fe) == [fe EXCEPT !.ti = NoTi]

\* txnForEacher.flush: hand the open aggregate to fn.
txnFlush(fe) ==
    IF ~fe.ti.open THEN fe
    ELSE [fe EXCEPT !.out = Append(@, [ID |-> fe.ti.ID, Actions |-> fe.ti.Actions]),
                    !.ti = NoTi]

\* A processLine that takes a Comment line for an operation of the open
\* transaction.
txnProcessLineComment(fe, tid, ln) ==
    IF ln.tag \in {TransactionLine, ReplayLine}
    THEN LET fl == txnFlush(fe)
         IN IF fl.state = statePreMatch
            THEN [fl EXCEPT !.state = IF tid = ln.key THEN stateMatch ELSE statePreMatch]
            ELSE IF ~ParseOK(ln.key)
                 THEN [fl EXCEPT !.state = statePostMatch, !.err = ErrParse]
                 ELSE [fl EXCEPT !.state = statePostMatch,
                                 !.ti = [ID |-> ln.key, Actions |-> <<>>, open |-> TRUE]]
    ELSE IF ln.tag \in {PutLine, DeleteLine, CommentLine}
         THEN IF ~fe.ti.open \/ fe.state # statePostMatch THEN fe
              ELSE [fe EXCEPT !.ti.Actions =
                        Append(@, newActionInfo(ln.tag = PutLine, ln.key, ln.val))]
    ELSE [fe EXCEPT !.err = ErrInvalidLine]

\* txnForEacher.processLine
txnProcessLine(fe, tid, ln) ==
    IF ln.tag \in {TransactionLine, ReplayLine}
    THEN LET fl == txnFlush(fe)
         IN IF fl.state = statePreMatch
            THEN [fl EXCEPT !.state = IF tid = ln.key THEN stateMatch ELSE statePreMatch]
            ELSE IF ~ParseOK(ln.key)
                 THEN [fl EXCEPT !.state = statePostMatch, !.err = ErrParse]
                 ELSE [fl EXCEPT !.state = statePostMatch,
                                 !.ti = [ID |-> ln.key, Actions |-> <<>>, open |-> TRUE]]
    ELSE IF ln.tag = CommentLine THEN fe
    ELSE IF ln.tag \in {PutLine, DeleteLine}
         THEN IF ~fe.ti.open \/ fe.state # statePostMatch THEN fe
              ELSE [fe EXCEPT !.ti.Actions =
                        Append(@, newActionInfo(ln.tag = PutLine, ln.key, ln.val))]
    ELSE [fe EXCEPT !.err = ErrInvalidLine]

\* seeker.ReadLines(fe.processLine) from cursor c.
RECURSIVE txnReadLines(_, _, _, _)
txnReadLines(file, c, fe, tid) ==
    IF c >= Len(file) \/ fe.err # Nil THEN fe
    ELSE txnReadLines(file, c + 1, txnProcessLine(fe, tid, file[c + 1]), tid)

\* The forEacher's state when the active-file scan starts after the archive scan.
afterArchive(fe) == [txnFlush(fe) EXCEPT !.state = stateMatch]

\* MrT.ForEachTxn: the TxnInfos handed to fn.
ForEachTxnOp(m, txnID, archive) ==
    IF m.closed THEN [err |-> ErrIsClosed, out |-> <<>>]
    ELSE LET fe0 == [state |-> NewMatch(txnID), ti |-> NoTi, out |-> <<>>, err |-> Nil]
             a == IF archive /\ ~isInCurrent(m, txnID)
                  THEN txnReadLines(m.af, 0, fe0, txnID)
                  ELSE fe0
         IN IF a.err # Nil THEN [err |-> a.err, out |-> a.out]
            ELSE LET b == IF archive /\ ~isInCurrent(m, txnID) THEN afterArchive(a) ELSE a
                     c == txnReadLines(m.f, 0, b, txnID)
                 IN IF c.err # Nil THEN [err |-> c.err, out |-> c.out]
                    ELSE [err |-> Nil, out |-> txnFlush(c).out]

\* ---------------------------------------------------------------- Archive
\* seeker.PrevLine from cursor c: back one line, failing at the file start.
PrevLine(c) == IF c = 0 THEN [err |-> ErrEOF, c |-> 0] ELSE [err |-> Nil, c |-> c - 1]

\* seeker.ReadLines(getFirstCommit): the cursor ends just past the first
\* Transaction line, or at the end of the file when there is none.
getFirstCommit(file) ==
    LET n == nextTxn(file, 0) IN IF n = 0 THEN Len(file) ELSE n

\* An Archive that writes the Replay line and drops what populate wrote.
archiveBufNoBody(lastTxn, body) == writeLine(<<>>, ReplayLine, lastTxn, 0)

\* The scratch buffer Archive writes to the truncated active file.
archiveBuf(lastTxn, body) == runBody(writeLine(<<>>, ReplayLine, lastTxn, 0), body)

\* MrT.Archive under f.With: the two files and the error it returns.
ArchiveOp(m, body, fail) ==
    IF m.closed THEN [err |-> ErrIsClosed, f |-> m.f, af |-> m.af]
    ELSE LET p == PrevLine(getFirstCommit(m.f))
         IN IF p.err # Nil THEN [err |-> p.err, f |-> m.f, af |-> m.af]
            ELSE LET copied == m.af \o SubSeq(m.f, p.c + 1, Len(m.f))
                 IN IF fail THEN [err |-> ErrBody, f |-> <<>>, af |-> copied]
                    ELSE [err |-> Nil, f |-> archiveBuf(m.ltxn, body), af |-> copied]

\* ----------------------------------------------------------------- Export
\* MrT.getToken: the log name (no middleware is configured).
getToken(m) == m.name

\* seeker.ReadLines(e.mf.breakOnMatch): the match state at the end and the
\* cursor (just past the first line that passes, or the end of the file).
RECURSIVE breakOnMatch(_, _, _, _)
breakOnMatch(file, c, state, tid) ==
    IF c >= Len(file) THEN [state |-> state, c |-> c]
    ELSE LET st == MatchFilter(state, tid, file[c + 1])
         IN IF st = statePostMatch THEN [state |-> st, c |-> c + 1]
            ELSE breakOnMatch(file, c + 1, st, tid)

\* exporter.seekToTransaction
seekToTransaction(file, state, tid) ==
    IF state # statePreMatch
    THEN LET n == nextTxn(file, 0)
         IN IF n = 0
            THEN [err |-> IF tid = 0 THEN Nil ELSE ErrNoTxn, state |-> state, c |-> Len(file)]
            ELSE [err |-> Nil, state |-> state, c |-> n - 1]
    ELSE LET r == breakOnMatch(file, 0, state, tid)
         IN [err |-> IF r.state = statePreMatch THEN ErrNoTxn ELSE Nil,
             state |-> r.state, c |-> PrevLine(r.c).c]

\* exporter.exportFrom: e = [err, state, data, hw]
exportFrom(m, file, e, tid) ==
    IF LastTxnOp(m).err # Nil THEN [e EXCEPT !.err = LastTxnOp(m).err]
    ELSE IF LastTxnOp(m).id = tid THEN [e EXCEPT !.err = ErrNoTxn]
    ELSE LET s == seekToTransaction(file, e.state, tid)
         IN IF s.err # Nil THEN [e EXCEPT !.err = s.err, !.state = s.state]
            ELSE [err |-> Nil, state |-> s.state, hw |-> TRUE,
                  data |-> e.data \o SubSeq(file, s.c + 1, Len(file))]

\* An Export that leaves the archive out.
exportArchiveSkip(m, e, tid) == e

\* MrT.exportArchive
exportArchive(m, e, tid) ==
    LET r == exportFrom(m, m.af, e, tid)
    IN IF r.err = ErrNoTxn THEN [r EXCEPT !.err = ErrInvalidTxn] ELSE r

\* An Export that, like Filter, returns nil when txnID is the last id.
ExportOpNilOnLast(m, txnID) ==
    IF txnID # 0 /\ txnID = m.ltxn THEN [err |-> Nil, w |-> NoW]
    ELSE LET e0 == [err |-> Nil, state |-> NewMatch(txnID), hw |-> FALSE, data |-> <<>>]
             e1 == IF txnID = 0 \/ ~isInCurrent(m, txnID) THEN exportArchive(m, e0, txnID) ELSE e0
             e2 == IF e1.err # Nil THEN e1 ELSE exportFrom(m, m.f, e1, txnID)
         IN IF e2.err # Nil THEN [err |-> e2.err, w |-> [data |-> e2.data, sig |-> NoSig]]
            ELSE [err |-> Nil,
                  w |-> [data |-> e2.data, sig |-> IF e2.hw THEN Sign(getToken(m), e2.data) ELSE NoSig]]

\* MrT.Export: the error and what has been written to w.
ExportOp(m, txnID) ==
    IF txnID # 0 /\ txnID = m.ltxn THEN [err |-> ErrNoTxn, w |-> NoW]
    ELSE LET e0 == [err |-> Nil, state |-> NewMatch(txnID), hw |-> FALSE, data |-> <<>>]
             e1 == IF txnID = 0 \/ ~isInCurrent(m, txnID) THEN exportArchive(m, e0, txnID) ELSE e0
             e2 == IF e1.err # Nil THEN e1 ELSE exportFrom(m, m.f, e1, txnID)
         IN IF e2.err # Nil THEN [err |-> e2.err, w |-> [data |-> e2.data, sig |-> NoSig]]
            ELSE [err |-> Nil,
                  w |-> [data |-> e2.data, sig |-> IF e2.hw THEN Sign(getToken(m), e2.data) ELSE NoSig]]

\* ----------------------------------------------------------------- Import
\* A verification that looks at the token and not at the payload.
parseImportPayloadTokenOnly(m, r) == r.sig.token = getToken(m)

\* MrT.parseImportPayload: the stream verifies under the local token.
parseImportPayload(m, r) == r.sig = Sign(getToken(m), r.data)

\* A replay that keeps the first id it meets instead of the last one.
RECURSIVE importLastTxnFirst(_, _, _)
importLastTxnFirst(data, c, last) ==
    IF c >= Len(data) THEN last
    ELSE importLastTxnFirst(data, c + 1,
                            IF data[c + 1].tag \in {TransactionLine, ReplayLine} /\ last = 0
                            THEN data[c + 1].key ELSE last)

\* The id Import tracks while replaying the payload.
RECURSIVE importLastTxn(_, _, _)
importLastTxn(data, c, last) ==
    IF c >= Len(data) THEN last
    ELSE importLastTxn(data, c + 1,
                       IF data[c + 1].tag \in {TransactionLine, ReplayLine}
                       THEN data[c + 1].key ELSE last)

\* An Import that replays the payload to fn and appends nothing.
appendImportPayloadNone(file, data) == file

\* MrT.appendImportPayload
appendImportPayload(file, data) == file \o data

\* An Import that stores the id it returns in the last-txn cell.
importCellStore(old, lastTxn) == lastTxn

\* The last-txn cell after Import: Import returns lastTxn to its caller and
\* has no m.ltxn.Store.
importCell(old, lastTxn) == old

\* MrT.Import: the active file afterwards, the lines handed to fn, lastTxn.
ImportOp(m, r) ==
    IF ~parseImportPayload(m, r)
    THEN [err |-> ErrVerify, f |-> m.f, out |-> <<>>, lastTxn |-> 0]
    ELSE [err |-> Nil, f |-> appendImportPayload(m.f, r.data), out |-> r.data,
          lastTxn |-> importLastTxn(r.data, 0, 0)]

\* ------------------------------------------------------------------- logs
M == [f |-> f, af |-> af, ltxn |-> ltxn, closed |-> closed, name |-> "testing"]
NoTxn == [id |-> 0, acts |-> <<>>]
Wrote(op, err, tid, body) == [op |-> op, err |-> err, tid |-> tid, body |-> body]
Ret(op, log, tid, archive, err, out, val) ==
    [op |-> op, log |-> log, tid |-> tid, archive |-> archive, err |-> err,
     out |-> out, val |-> val]

\* A callback that returns nil at every invocation.
NoCb == [at |-> 0, what |-> Nil]
\* The goroutines that call into the log concurrently.
Procs == 1 .. MaxProcs
NoHnd == [app |-> 0, with |-> 0, rd |-> {}]
NoLBuf == [mux |-> 0, buf |-> <<>>]
Idle == [op |-> "idle", step |-> 0, call |-> 0, lines |-> <<>>, fail |-> FALSE, tid |-> 0, n |-> 0]
NoOwn == [n |-> 0, by |-> <<>>, want |-> <<>>]
NoView == [open |-> FALSE, af0 |-> <<>>, f0 |-> <<>>, af |-> <<>>, f |-> <<>>, done |-> FALSE]

NoDisk == [f |-> <<>>, af |-> <<>>]
\* No call of the byte-level codec has been made.
NoKV == [key |-> <<>>, value |-> <<>>, fault |-> FALSE, over |-> FALSE]
NoWire == [file |-> <<>>, lines |-> <<>>, b |-> <<>>, slack |-> <<>>, op |-> "none", out |-> <<>>, err |-> Nil, kv |-> NoKV]

Init ==
    /\ f = <<>>
    /\ af = <<>>
    /\ ltxn = 0
    /\ closed = FALSE
    /\ ug = 0
    /\ txn = NoTxn
    /\ nm = [f |-> <<>>, af |-> <<>>, ltxn |-> 0, closed |-> FALSE, name |-> "testing"]
    /\ w = NoW
    /\ ret = Ret("New", "m", 0, FALSE, Nil, <<>>, 0)
    /\ committed = <<>>
    /\ narch = 0
    /\ ncomm = 0
    /\ nexp = 0
    /\ nfail = 0
    /\ nopen = 0
    /\ rt = 0
    /\ impTxn = 0
    /\ lastw = Wrote("New", Nil, 0, <<>>)
    /\ cb = NoCb
    /\ hnd = NoHnd
    /\ lbuf = NoLBuf
    /\ pc = [p \in Procs |-> Idle]
    /\ own = NoOwn
    /\ view = [p \in Procs |-> NoView]
    /\ disk = NoDisk
    /\ wire = NoWire
    /\ rdrs = <<>>

\* ------------------------------------------------------------------ Txn
\* A Txn that writes its body without the Transaction line.
txnBufNoLine(txnID, body) == runBody(<<>>, body)

\* The scratch buffer of a Txn call whose body issues `body`.
txnBuf(txnID, body) == runBody(writeLine(<<>>, TransactionLine, txnID, 0), body)

\* An Update that writes the buffer before it looks at the body's error.
txnWriteAlways(txnID, body, fail) == txnBuf(txnID, body)

\* lbuf.Update inside Txn: what reaches the appender.  The body's error
\* returns before a.Write; the buffer is reset either way.
txnWrite(txnID, body, fail) == IF fail THEN <<>> ELSE txnBuf(txnID, body)

\* Txn up to the end of lbuf.Update: appender acquired, closed checked, id
\* minted, Transaction line and body written to the scratch buffer, and on
\* success the buffer written to the appender.
TxnBegin(body, fail) ==
    /\ txn = NoTxn
    /\ ~closed
    /\ ug < MaxTxn
    /\ fail => nfail < MaxFail
    /\ nfail' = IF fail THEN nfail + 1 ELSE nfail
    /\ ug' = ug + 1
    /\ f' = f \o txnWrite(ug + 1, body, fail)
    /\ IF fail
       THEN /\ txn' = NoTxn
            /\ ret' = Ret("Txn", "m", ug + 1, FALSE, ErrBody, <<>>, 0)
            /\ rt' = rt
       ELSE /\ txn' = [id |-> ug + 1, acts |-> body]
            /\ ret' = ret
            /\ rt' = IF rt \in {2, 3} THEN 3 ELSE 0
    /\ lastw' = IF fail THEN lastw ELSE Wrote("Txn", Nil, ug + 1, body)
    /\ UNCHANGED <<af, ltxn, closed, nm, w, committed, narch, ncomm, nexp, nopen, impTxn, cb, cvars>>

\* Txn on a closed log.
TxnClosed ==
    /\ txn = NoTxn
    /\ closed
    /\ ret' = Ret("Txn", "m", 0, FALSE, ErrIsClosed, <<>>, 0)
    /\ UNCHANGED <<f, af, ltxn, closed, ug, txn, nm, w, committed, narch, ncomm, nexp, nfail, nopen, rt, impTxn, lastw, cb, cvars>>

\* A commit that never stores the id.
txnStoreKeep(old, txnID) == old

\* The cell after a successful commit.
txnStore(old, txnID) == txnID

\* Txn after lbuf.Update: a.Sync, ltxn.Store, and the deferred a.Close.
TxnCommit ==
    /\ txn # NoTxn
    /\ ltxn' = txnStore(ltxn, txn.id)
    /\ committed' = Append(committed, txn)
    /\ txn' = NoTxn
    /\ ret' = Ret("Txn", "m", txn.id, FALSE, Nil, <<>>, 0)
    /\ UNCHANGED <<f, af, closed, ug, nm, w, narch, ncomm, nexp, nfail, nopen, rt, impTxn, lastw, cb, cvars>>

\* ---------------------------------------------------------------- Comment
Comment(b) ==
    /\ txn = NoTxn
    /\ ncomm < MaxComment
    /\ ncomm' = ncomm + 1
    /\ IF closed
       THEN /\ ret' = Ret("Comment", "m", 0, FALSE, ErrIsClosed, <<>>, 0)
            /\ UNCHANGED <<f, rt, lastw>>
       ELSE /\ f' = f \o writeLine(<<>>, CommentLine, b, 0)
            /\ ret' = Ret("Comment", "m", 0, FALSE, Nil, <<>>, 0)
            /\ rt' = 0
            /\ lastw' = Wrote("Comment", Nil, b, <<>>)
    /\ UNCHANGED <<af, ltxn, closed, ug, txn, nm, w, committed, narch, nexp, nfail, nopen, impTxn, cb, cvars>>

\* ---------------------------------------------------------------- Archive
Archive(body, fail) ==
    /\ txn = NoTxn
    /\ narch < MaxArchive
    /\ fail => nfail < MaxFail
    /\ narch' = narch + 1
    /\ LET r == ArchiveOp(M, body, fail)
       IN /\ f' = r.f
          /\ af' = r.af
          /\ ret' = Ret("Archive", "m", ltxn, FALSE, r.err, runBody(<<>>, body), 0)
          /\ rt' = IF r.f = f /\ r.af = af THEN rt ELSE 0
          /\ nfail' = IF r.err = ErrBody THEN nfail + 1 ELSE nfail
          /\ lastw' = Wrote("Archive", r.err, ltxn, body)
    /\ UNCHANGED <<ltxn, closed, ug, txn, nm, w, committed, ncomm, nexp, nopen, impTxn, cb, cvars>>

\* ------------------------------------------------------------ Close / New
Close ==
    /\ txn = NoTxn
    /\ closed' = TRUE
    /\ ret' = Ret("Close", "m", 0, FALSE, IF closed THEN ErrIsClosed ELSE Nil, <<>>, 0)
    /\ rt' = 0
    /\ lastw' = IF closed THEN lastw ELSE Wrote("Close", Nil, 0, <<>>)
    /\ UNCHANGED <<f, af, ltxn, ug, txn, nm, w, committed, narch, ncomm, nexp, nfail, nopen, impTxn, cb, cvars>>

\* New on the directory of a closed log: the files are the ones on disk and
\* the cell is set by the startup scan.
New ==
    /\ closed
    /\ nopen < MaxReopen
    /\ nopen' = nopen + 1
    /\ closed' = FALSE
    /\ ltxn' = scanLastTxn(f, 0, 0)
    /\ ret' = Ret("New", "m", 0, FALSE, Nil, <<>>, 0)
    /\ rt' = 0
    /\ lastw' = Wrote("New", Nil, 0, <<>>)
    /\ UNCHANGED <<f, af, ug, txn, nm, w, committed, narch, ncomm, nexp, nfail, impTxn, cb, cvars>>

\* ---------------------------------------------------------------- readers
Log(name) == IF name = "m" THEN M ELSE nm

ForEach(log, txnID, archive) ==
    /\ LET r == ForEachOp(Log(log), txnID, archive)
       IN ret' = Ret("ForEach", log, txnID, archive, r.err, r.out, 0)
    /\ UNCHANGED <<f, af, ltxn, closed, ug, txn, nm, w, committed, narch, ncomm, nexp, nfail, nopen, rt, impTxn, lastw, cb, cvars>>

ForEachTxn(log, txnID, archive) ==
    /\ LET r == ForEachTxnOp(Log(log), txnID, archive)
       IN ret' = Ret("ForEachTxn", log, txnID, archive, r.err, r.out, 0)
    /\ UNCHANGED <<f, af, ltxn, closed, ug, txn, nm, w, committed, narch, ncomm, nexp, nfail, nopen, rt, impTxn, lastw, cb, cvars>>

\* ForEach with a callback that returns fn.what at its fn.at-th invocation.
ForEachFn(txnID, archive, fn) ==
    /\ LET r == ForEachFnOp(M, txnID, archive, fn)
       IN ret' = Ret("ForEach", "m", txnID, archive, r.err, r.out, 0)
    /\ cb' = fn
    /\ UNCHANGED <<f, af, ltxn, closed, ug, txn, nm, w, committed, narch, ncomm, nexp, nfail, nopen, rt, impTxn, lastw, cvars>>

\* ForEachTxn with such a callback: flush calls fe.fn(fe.ti) as a statement,
\* so what the callback returns reaches neither processLine nor ReadLines.
ForEachTxnFn(txnID, archive, fn) ==
    /\ LET r == ForEachTxnOp(M, txnID, archive)
       IN ret' = Ret("ForEachTxn", "m", txnID, archive, r.err, r.out, 0)
    /\ cb' = fn
    /\ UNCHANGED <<f, af, ltxn, closed, ug, txn, nm, w, committed, narch, ncomm, nexp, nfail, nopen, rt, impTxn, lastw, cvars>>

\* The callbacks: nil throughout, or the early-exit sentinel or an error of
\* its own at one invocation.
Callbacks == {[at |-> k, what |-> x] : k \in 1 .. MaxAt, x \in {Nil, ErrEndEarly, ErrFn}}

LastTxn(log) ==
    /\ LET r == LastTxnOp(Log(log))
       IN ret' = Ret("LastTxn", log, 0, FALSE, r.err, <<>>, r.id)
    /\ UNCHANGED <<f, af, ltxn, closed, ug, txn, nm, w, committed, narch, ncomm, nexp, nfail, nopen, rt, impTxn, lastw, cb, cvars>>

\* ------------------------------------------------------- Export / Import
Export(txnID) ==
    /\ nexp < MaxExport
    /\ nexp' = nexp + 1
    /\ LET r == ExportOp(M, txnID)
       IN /\ w' = r.w
          /\ ret' = Ret("Export", "m", txnID, FALSE, r.err, r.w.data, 0)
          /\ rt' = IF r.err = Nil /\ txn = NoTxn /\ txnID = 0 /\ nm.f = <<>> THEN 1
                   ELSE IF r.err = Nil /\ txn = NoTxn /\ rt = 3 /\ txnID = impTxn THEN 4
                   ELSE IF rt \in {2, 3} THEN rt
                   ELSE 0
    /\ UNCHANGED <<f, af, ltxn, closed, ug, txn, nm, committed, narch, ncomm, nfail, nopen, impTxn, lastw, cb, cvars>>

\* Import into the second log of what w holds; the reader is drained.
Import ==
    /\ w # NoW
    /\ LET r == ImportOp(nm, w)
       IN /\ nm' = [nm EXCEPT !.f = r.f, !.ltxn = importCell(@, r.lastTxn)]
          /\ ret' = Ret("Import", "nm", 0, FALSE, r.err, r.out, r.lastTxn)
          /\ impTxn' = IF r.err = Nil THEN r.lastTxn ELSE impTxn
          /\ rt' = IF r.err = Nil /\ rt = 1 THEN 2
                   ELSE IF r.err = Nil /\ rt = 4 THEN 5
                   ELSE 0
    /\ w' = NoW
    /\ UNCHANGED <<f, af, ltxn, closed, ug, txn, committed, narch, ncomm, nexp, nfail, nopen, lastw, cb, cvars>>

\* The stream between Export and Import is altered: signed under another
\* token, one payload line changed, or the last payload line cut off.
Tampered(r, how) ==
    IF how = "token" THEN [r EXCEPT !.sig = Sign("other", r.data)]
    ELSE IF how = "payload" THEN [r EXCEPT !.data[1].val = @ + 1]
    ELSE [r EXCEPT !.data = SubSeq(@, 1, Len(@) - 1)]

Tamper(how) ==
    /\ parseImportPayload(nm, w)
    /\ how # "token" => w.data # <<>>
    /\ w' = Tampered(w, how)
    /\ UNCHANGED <<f, af, ltxn, closed, ug, txn, nm, ret, committed, narch, ncomm, nexp, nfail, nopen, rt, impTxn, lastw, cb, cvars>>

TxnIds == 0 .. MaxTxn
\* The numbers of operations a Txn body and a populate issue.
TxnLens == {MaxActs}
SnapLens == {0, MaxActs}
CommentKeys == {1}

Next ==
    \/ \E n \in TxnLens, fail \in BOOLEAN : TxnBegin(Body(ug + 1, n), fail)
    \/ TxnCommit
    \/ \E b \in CommentKeys : Comment(b)
    \/ \E n \in SnapLens, fail \in BOOLEAN : Archive(Body(SnapKey + narch, n), fail)
    \/ \E tid \in TxnIds, archive \in BOOLEAN : ForEach("m", tid, archive)
    \/ \E tid \in TxnIds, archive \in BOOLEAN : ForEachTxn("m", tid, archive)
    \/ LastTxn("m")

Spec == Init /\ [][Next]_vars

\* The life cycle: the log is closed and opened again on the same files.
NextC ==
    \/ \E n \in TxnLens, fail \in BOOLEAN : TxnBegin(Body(ug + 1, n), fail)
    \/ TxnClosed
    \/ TxnCommit
    \/ \E b \in CommentKeys : Comment(b)
    \/ \E n \in SnapLens, fail \in BOOLEAN : Archive(Body(SnapKey + narch, n), fail)
    \/ Close
    \/ New
    \/ LastTxn("m")

SpecC == Init /\ [][NextC]_vars

\* The export/import round trip between the log and a second, fresh log.
NextX ==
    \/ \E n \in TxnLens : TxnBegin(Body(ug + 1, n), FALSE)
    \/ TxnCommit
    \/ \E b \in CommentKeys : Comment(b)
    \/ \E n \in SnapLens : Archive(Body(SnapKey + narch, n), FALSE)
    \/ \E tid \in TxnIds : Export(tid)
    \/ \E how \in {"token", "payload", "cut"} : Tamper(how)
    \/ Import
    \/ ForEach("nm", 0, TRUE)
    \/ LastTxn("nm")

SpecX == Init /\ [][NextX]_vars

\* Export on a log that may be closed: on a closed log it is taken with the
\* last id only, the input whose outcome Export decides before it touches
\* the closed files.
ExportAroundClose(txnID) ==
    /\ closed => (txnID # 0 /\ txnID = ltxn)
    /\ Export(txnID)

\* The log around Close.
NextD ==
    \/ \E n \in TxnLens : TxnBegin(Body(ug + 1, n), FALSE)
    \/ TxnClosed
    \/ TxnCommit
    \/ \E b \in CommentKeys : Comment(b)
    \/ \E n \in SnapLens : Archive(Body(SnapKey + narch, n), FALSE)
    \/ Close
    \/ LastTxn("m")
    \/ ForEach("m", 0, TRUE)
    \/ ForEachTxn("m", 0, TRUE)
    \/ \E tid \in TxnIds : ExportAroundClose(tid)

SpecD == Init /\ [][NextD]_vars

\* The iterators with callbacks that end the iteration.
NextF ==
    \/ \E n \in TxnLens : TxnBegin(Body(ug + 1, n), FALSE)
    \/ TxnCommit
    \/ \E n \in SnapLens : Archive(Body(SnapKey + narch, n), FALSE)
    \/ \E tid \in {0, 1}, archive \in BOOLEAN, fn \in Callbacks : ForEachFn(tid, archive, fn)
    \/ \E tid \in {0, 1}, archive \in BOOLEAN, fn \in Callbacks : ForEachTxnFn(tid, archive, fn)

SpecF == Init /\ [][NextF]_vars

\* ------------------------------------------------------------ Txn handle
\* newTxn: the handle holds the scratch buffer and the write function.
newTxn == [buf |-> TRUE, writeLine |-> TRUE]

\* Txn.clear: both references are set to nil.
clear(t) == [buf |-> FALSE, writeLine |-> FALSE]

\* Txn.Put / Txn.Delete: t.writeLine(t.buf, ...); calling a nil func panics.
TxnPutOp(t, buf, isPut, key, value) ==
    IF ~t.writeLine THEN [err |-> Panic, buf |-> buf]
    ELSE [err |-> Nil,
          buf |-> writeLine(buf, IF isPut THEN PutLine ELSE DeleteLine, key, value)]

\* Put or Delete on the handle of a callback that has returned (a Txn body
\* or a populate): the deferred txn.clear() has run.
LatePut(isPut) ==
    /\ ug > 0 \/ narch > 0
    /\ txn = NoTxn
    /\ LET r == TxnPutOp(clear(newTxn), lbuf.buf, isPut, 1, 1)
       IN /\ lbuf' = [lbuf EXCEPT !.buf = r.buf]
          /\ ret' = Ret(IF isPut THEN "Put" ELSE "Delete", "m", 0, FALSE, r.err, <<>>, 0)
    /\ UNCHANGED <<f, af, ltxn, closed, ug, txn, nm, w, committed, narch, ncomm, nexp, nfail, nopen, rt, impTxn, lastw, cb, hnd, pc, own, view, disk, wire, rdrs>>

\* Txn and Archive callbacks, and handles used after they returned.
NextH ==
    \/ \E n \in TxnLens, fail \in BOOLEAN : TxnBegin(Body(ug + 1, n), fail)
    \/ TxnCommit
    \/ \E n \in SnapLens, fail \in BOOLEAN : Archive(Body(SnapKey + narch, n), fail)
    \/ \E isPut \in BOOLEAN : LatePut(isPut)
    \/ LastTxn("m")

SpecH == Init /\ [][NextH]_vars

\* ------------------------------------------------ goroutines on one log
\* The variables the concurrent calls leave alone.
svars == <<closed, txn, nm, w, ret, committed, narch, ncomm, nexp, nfail, nopen, rt, impTxn, lastw, cb, disk, wire, rdrs>>

\* cfile.File.Appender: one writer at a time; readers are not held up.
CanAppend(h) == h.app = 0 /\ h.with = 0

\* cfile.File.With: access to the file itself, alone.
CanWith(h) == h.app = 0 /\ h.with = 0 /\ h.rd = {}

\* A reader handle that is handed out while another call works on the file
\* under With.
CanReadAlways(h) == TRUE

\* cfile.File.Reader: the read-lock, shared among readers.
CanRead(h) == h.with = 0

\* An Update that leaves in the buffer what the call wrote to it.
lbufKeep(buf) == buf

\* lbuf.Update: l.buf.Reset() after fn, whatever fn returned.
lbufReset(buf) == <<>>

\* The payload of another log that Import appends: one transaction.
ImportKey == SnapKey + MaxArchive
ImportPayload == txnBuf(ImportKey, Body(ImportKey, MaxActs))

\* A goroutine enters a call.
StartCall(p, op, n, fail) ==
    /\ pc[p] = Idle
    /\ own.n < MaxCalls
    /\ pc' = [pc EXCEPT ![p] = [op |-> op, step |-> 1, call |-> own.n + 1, lines |-> <<>>,
                                fail |-> fail, tid |-> 0, n |-> n]]

\* The call of goroutine p has written lines to the active file.
Written(p, lines) ==
    [own EXCEPT !.by = @ \o [i \in 1 .. Len(lines) |-> pc[p].call]]

\* Txn: a := m.f.Appender(), the closed check.
WTxnAppender(p, n, fail) ==
    /\ StartCall(p, "Txn", n, fail)
    /\ ~closed
    /\ ug < MaxTxn
    /\ CanAppend(hnd)
    /\ hnd' = [hnd EXCEPT !.app = p]
    /\ own' = [own EXCEPT !.n = @ + 1, !.want = Append(@, <<>>)]
    /\ UNCHANGED <<f, af, ltxn, ug, lbuf, view, svars>>

\* Txn: newTxnID, lbuf.Update entered, the Transaction line written to the buffer.
WTxnLine(p) ==
    /\ pc[p].op = "Txn" /\ pc[p].step = 1
    /\ lbuf.mux = 0
    /\ ug' = ug + 1
    /\ lbuf' = [mux |-> p, buf |-> writeLine(lbuf.buf, TransactionLine, ug + 1, 0)]
    /\ pc' = [pc EXCEPT ![p].step = 2, ![p].tid = ug + 1,
                        ![p].lines = writeLine(<<>>, TransactionLine, ug + 1, 0)]
    /\ UNCHANGED <<f, af, ltxn, hnd, own, view, svars>>

\* Txn: fn(&txn).  Its error ends Update and the call.
WTxnBody(p) ==
    /\ pc[p].op = "Txn" /\ pc[p].step = 2
    /\ IF pc[p].fail
       THEN /\ lbuf' = [mux |-> 0, buf |-> lbufReset(lbuf.buf)]
            /\ hnd' = [hnd EXCEPT !.app = 0]
            /\ pc' = [pc EXCEPT ![p] = Idle]
       ELSE /\ lbuf' = [lbuf EXCEPT !.buf = runBody(@, Body(pc[p].tid, pc[p].n))]
            /\ hnd' = hnd
            /\ pc' = [pc EXCEPT ![p].step = 3,
                                ![p].lines = runBody(@, Body(pc[p].tid, pc[p].n))]
    /\ UNCHANGED <<f, af, ltxn, ug, own, view, svars>>

\* Txn: a.Write(buf.Bytes()), the end of Update.
WTxnWrite(p) ==
    /\ pc[p].op = "Txn" /\ pc[p].step = 3
    /\ f' = f \o lbuf.buf
    /\ own' = [Written(p, lbuf.buf) EXCEPT !.want[pc[p].call] = pc[p].lines]
    /\ lbuf' = [mux |-> 0, buf |-> lbufReset(lbuf.buf)]
    /\ pc' = [pc EXCEPT ![p].step = 4]
    /\ UNCHANGED <<af, ltxn, ug, hnd, view, svars>>

\* Txn: a.Sync, m.ltxn.Store, the deferred a.Close.
WTxnStore(p) ==
    /\ pc[p].op = "Txn" /\ pc[p].step = 4
    /\ ltxn' = txnStore(ltxn, pc[p].tid)
    /\ hnd' = [hnd EXCEPT !.app = 0]
    /\ pc' = [pc EXCEPT ![p] = Idle]
    /\ UNCHANGED <<f, af, ug, lbuf, own, view, svars>>

\* Comment: a := m.f.Appender(), the closed check.
WCommentAppender(p) ==
    /\ StartCall(p, "Comment", 0, FALSE)
    /\ ~closed
    /\ CanAppend(hnd)
    /\ hnd' = [hnd EXCEPT !.app = p]
    /\ own' = [own EXCEPT !.n = @ + 1, !.want = Append(@, <<>>)]
    /\ UNCHANGED <<f, af, ltxn, ug, lbuf, view, svars>>

\* Comment: lbuf.Update with writeLine and a.Write, the deferred a.Close.
WCommentWrite(p, b) ==
    /\ pc[p].op = "Comment" /\ pc[p].step = 1
    /\ lbuf.mux = 0
    /\ LET buf == writeLine(lbuf.buf, CommentLine, b, 0)
       IN /\ f' = f \o buf
          /\ own' = [Written(p, buf) EXCEPT !.want[pc[p].call] = writeLine(<<>>, CommentLine, b, 0)]
          /\ lbuf' = [mux |-> 0, buf |-> lbufReset(buf)]
    /\ hnd' = [hnd EXCEPT !.app = 0]
    /\ pc' = [pc EXCEPT ![p] = Idle]
    /\ UNCHANGED <<af, ltxn, ug, view, svars>>

\* Archive: m.f.With entered, the closed check.
WArchiveWith(p, n) ==
    /\ StartCall(p, "Archive", n, FALSE)
    /\ ~closed
    /\ CanWith(hnd)
    /\ hnd' = [hnd EXCEPT !.with = p]
    /\ own' = [own EXCEPT !.n = @ + 1, !.want = Append(@, <<>>)]
    /\ UNCHANGED <<f, af, ltxn, ug, lbuf, view, svars>>

\* Archive: getFirstCommit, PrevLine, io.Copy(aw, f).
WArchiveCopy(p) ==
    /\ pc[p].op = "Archive" /\ pc[p].step = 1
    /\ LET pl == PrevLine(getFirstCommit(f))
       IN IF pl.err # Nil
          THEN /\ af' = af
               /\ hnd' = [hnd EXCEPT !.with = 0]
               /\ pc' = [pc EXCEPT ![p] = Idle]
          ELSE /\ af' = af \o SubSeq(f, pl.c + 1, Len(f))
               /\ hnd' = hnd
               /\ pc' = [pc EXCEPT ![p].step = 2]
    /\ UNCHANGED <<f, ltxn, ug, lbuf, own, view, svars>>

\* Archive: f.Truncate(0), f.Seek.
WArchiveTruncate(p) ==
    /\ pc[p].op = "Archive" /\ pc[p].step = 2
    /\ f' = <<>>
    /\ own' = [own EXCEPT !.by = <<>>]
    /\ pc' = [pc EXCEPT ![p].step = 3]
    /\ UNCHANGED <<af, ltxn, ug, hnd, lbuf, view, svars>>

\* Archive: lbuf.Update with the Replay line, populate and f.Write; the
\* end of With.
WArchiveWrite(p) ==
    /\ pc[p].op = "Archive" /\ pc[p].step = 3
    /\ lbuf.mux = 0
    /\ LET seed == archiveBuf(ltxn, Body(SnapKey, pc[p].n))
           buf == lbuf.buf \o seed
       IN /\ f' = f \o buf
          /\ own' = [Written(p, buf) EXCEPT !.want[pc[p].call] = seed]
          /\ lbuf' = [mux |-> 0, buf |-> lbufReset(buf)]
    /\ hnd' = [hnd EXCEPT !.with = 0]
    /\ pc' = [pc EXCEPT ![p] = Idle]
    /\ UNCHANGED <<af, ltxn, ug, view, svars>>

\* Import: parseImportPayload has verified the stream.
WImportParse(p) ==
    /\ StartCall(p, "Import", 0, FALSE)
    /\ own' = [own EXCEPT !.n = @ + 1, !.want = Append(@, <<>>)]
    /\ UNCHANGED <<f, af, ltxn, ug, hnd, lbuf, view, svars>>

\* Import: a := m.f.Appender() in appendImportPayload.
WImportAppender(p) ==
    /\ pc[p].op = "Import" /\ pc[p].step = 1
    /\ CanAppend(hnd)
    /\ hnd' = [hnd EXCEPT !.app = p]
    /\ pc' = [pc EXCEPT ![p].step = 2]
    /\ UNCHANGED <<f, af, ltxn, ug, lbuf, own, view, svars>>

\* Import: io.Copy(a, f) of a payload that fits one Write, the deferred
\* a.Close.
WImportCopy(p) ==
    /\ pc[p].op = "Import" /\ pc[p].step = 2
    /\ f' = appendImportPayload(f, ImportPayload)
    /\ own' = [Written(p, ImportPayload) EXCEPT !.want[pc[p].call] = ImportPayload]
    /\ hnd' = [hnd EXCEPT !.app = 0]
    /\ pc' = [pc EXCEPT ![p] = Idle]
    /\ UNCHANGED <<af, ltxn, ug, lbuf, view, svars>>

\* A reader (filter, ForEachTxn, Export): m.f.Reader().
ROpen(p) ==
    /\ pc[p] = Idle
    /\ own.n < MaxCalls
    /\ CanRead(hnd)
    /\ hnd' = [hnd EXCEPT !.rd = @ \cup {p}]
    /\ pc' = [pc EXCEPT ![p] = [Idle EXCEPT !.op = "Read", !.step = 1, !.call = own.n + 1]]
    /\ own' = [own EXCEPT !.n = @ + 1, !.want = Append(@, <<>>)]
    /\ view' = [view EXCEPT ![p] = [open |-> TRUE, af0 |-> af, f0 |-> f,
                                    af |-> <<>>, f |-> <<>>, done |-> FALSE]]
    /\ UNCHANGED <<f, af, ltxn, ug, lbuf, svars>>

\* The reader: readArchiveLines, to the end of the archive file.
RArchive(p) ==
    /\ pc[p].op = "Read" /\ pc[p].step = 1
    /\ view' = [view EXCEPT ![p].af = af]
    /\ pc' = [pc EXCEPT ![p].step = 2]
    /\ UNCHANGED <<f, af, ltxn, ug, hnd, lbuf, own, svars>>

\* The reader: ReadLines on the active file, to its end.
RActive(p) ==
    /\ pc[p].op = "Read" /\ pc[p].step = 2
    /\ view' = [view EXCEPT ![p].f = f]
    /\ pc' = [pc EXCEPT ![p].step = 3]
    /\ UNCHANGED <<f, af, ltxn, ug, hnd, lbuf, own, svars>>

\* The reader: the deferred Close of the reader handle.
RClose(p) ==
    /\ pc[p].op = "Read" /\ pc[p].step = 3
    /\ view' = [view EXCEPT ![p].done = TRUE, ![p].open = FALSE]
    /\ hnd' = [hnd EXCEPT !.rd = @ \ {p}]
    /\ pc' = [pc EXCEPT ![p] = Idle]
    /\ UNCHANGED <<f, af, ltxn, ug, lbuf, own, svars>>

\* Goroutines calling Txn, Comment, Archive, Import and the readers on one log.
NextW ==
    \E p \in Procs :
        \/ \E n \in TxnLens, fail \in BOOLEAN : WTxnAppender(p, n, fail)
        \/ WTxnLine(p)
        \/ WTxnBody(p)
        \/ WTxnWrite(p)
        \/ WTxnStore(p)
        \/ WCommentAppender(p)
        \/ \E b \in CommentKeys : WCommentWrite(p, b)
        \/ \E n \in SnapLens : WArchiveWith(p, n)
        \/ WArchiveCopy(p)
        \/ WArchiveTruncate(p)
        \/ WArchiveWrite(p)
        \/ WImportParse(p)
        \/ WImportAppender(p)
        \/ WImportCopy(p)
        \/ ROpen(p)
        \/ RArchive(p)
        \/ RActive(p)
        \/ RClose(p)

SpecW == Init /\ [][NextW]_vars

\* ------------------------------------------------------------- properties
Last(s) == s[Len(s)]
IsData(ln) == ln.tag \in {PutLine, DeleteLine}
IsTxnLine(ln) == ln.tag = TransactionLine
NotComment(ln) == ln.tag # CommentLine
PutDel(lines) == SelectSeq(lines, IsData)

\* The line an operation of a body is to leave in the log.
OpLine(o) == Line(IF o.put THEN PutLine ELSE DeleteLine, o.key, o.val)
OpLines(body) == [i \in 1 .. Len(body) |-> OpLine(body[i])]
\* The lines of a committed Txn call: its Transaction line, then its body.
TxnLines(t) == <<Line(TransactionLine, t.id, 0)>> \o OpLines(t.acts)
RECURSIVE History(_)
History(ts) == IF ts = <<>> THEN <<>> ELSE TxnLines(Head(ts)) \o History(Tail(ts))

\* A step in which a Txn body returned an error.
TxnFailStep == ug' = ug + 1 /\ nfail' = nfail + 1

\* C1: when the callback passed to Txn returns an error, Txn returns that
\* error, not a byte is appended to the active file (the archive is left
\* alone too), and LastTxn returns what it returned before the call.
C1_FailedTxnAppendsNothing ==
    [][TxnFailStep =>
          /\ ret'.op = "Txn" /\ ret'.err = ErrBody
          /\ f' = f /\ af' = af
          /\ ltxn' = ltxn /\ closed' = closed]_vars

\* A failed Txn has returned on a log that holds committed transactions.
C1_Witness ==
    /\ ret.op = "Txn" /\ ret.err = ErrBody
    /\ committed # <<>> /\ f # <<>> /\ ltxn # 0

\* C2: once N >= 1 Txn calls have returned success, however interleaved with
\* failed Txn calls, Comment, Archive and the iterators, the cell holds (and
\* LastTxn returns) the id the N-th committed Txn minted; with no Txn in
\* flight that is the key of the Transaction line appended last.
C2_LastTxnIsNthCommit ==
    committed # <<>> =>
        /\ ltxn = Last(committed).id
        /\ LastTxnOp(M) = [err |-> Nil, id |-> Last(committed).id]
        /\ (ret.op = "LastTxn" => ret.err = Nil /\ ret.val = Last(committed).id)
        /\ (txn = NoTxn => scanLastTxn(af \o f, 0, 0) = ltxn)

\* LastTxn has returned after three commits, a failed callback, a Comment
\* and an Archive.
C2_Witness ==
    /\ ret.op = "LastTxn" /\ ret.val = MaxTxn
    /\ Len(committed) >= 2 /\ nfail > 0 /\ narch > 0 /\ ncomm > 0

\* C3: on a log never archived, with no Txn in flight, ForEach("", true)
\* delivers, in commit order, for each committed transaction its Transaction
\* line followed by exactly the Put/Delete lines its body issued, in order,
\* with the same keys and values; no line of a failed Txn is delivered.
C3_ForEachAllUnarchived ==
    (ret.op = "ForEach" /\ ret.tid = 0 /\ ret.archive /\ narch = 0 /\ txn = NoTxn) =>
        /\ ret.err = Nil
        /\ SelectSeq(ret.out, NotComment) = History(committed)

\* ForEach("", true) has returned on an unarchived log with two commits and
\* a failed Txn.
C3_Witness ==
    /\ ret.op = "ForEach" /\ ret.tid = 0 /\ ret.archive /\ narch = 0 /\ txn = NoTxn
    /\ Len(committed) >= 2 /\ nfail > 0 /\ Len(PutDel(ret.out)) >= 2 * MaxActs

\* The transactions committed after the one with id t.
RECURSIVE CommittedAfter(_, _)
CommittedAfter(ts, t) ==
    IF ts = <<>> THEN <<>>
    ELSE IF Head(ts).id = t THEN Tail(ts)
    ELSE CommittedAfter(Tail(ts), t)
IsCommitted(t) == \E i \in 1 .. Len(committed) : committed[i].id = t

\* C4: for the id t of a committed transaction, after Txn, Comment and
\* Archive calls that all succeeded, ForEach(t, true) delivers the
\* Put/Delete lines of exactly the transactions committed after t, once each
\* and in commit order, and none of t, of an earlier transaction or of an
\* Archive snapshot.
C4_ForEachAfterT ==
    (/\ ret.op = "ForEach" /\ ret.log = "m" /\ ret.archive
     /\ IsCommitted(ret.tid) /\ txn = NoTxn /\ nfail = 0) =>
        PutDel(ret.out) = PutDel(History(CommittedAfter(committed, ret.tid)))

\* s is t with some elements left out.
RECURSIVE IsSubSeq(_, _)
IsSubSeq(s, t) ==
    IF s = <<>> THEN TRUE
    ELSE IF t = <<>> THEN FALSE
    ELSE IF Head(s) = Head(t) THEN IsSubSeq(Tail(s), Tail(t))
    ELSE IsSubSeq(s, Tail(t))

ForEachAllReturned ==
    ret.op = "ForEach" /\ ret.log = "m" /\ ret.tid = 0 /\ ret.archive /\ txn = NoTxn

\* C5 as stated: ForEach("", true) delivers the Put/Delete lines of every
\* committed transaction, whether it is in the archive or in the active file.
C5_ForEachAllWholeHistory ==
    (ForEachAllReturned /\ nfail = 0) =>
        IsSubSeq(PutDel(History(committed)), PutDel(ret.out))

\* C5 amended: ForEach("", true) never reads the archive: it delivers the
\* lines of the active file, all of them and in file order, so of the
\* committed transactions only those whose Transaction line is in the
\* active file are delivered.
C5_ForEachAllIsActiveFile ==
    ForEachAllReturned =>
        /\ ret.err = Nil
        /\ ret.out = f
        /\ \A i \in 1 .. Len(committed) :
              (\E j \in 1 .. Len(ret.out) :
                  IsTxnLine(ret.out[j]) /\ ret.out[j].key = committed[i].id)
              <=> (\E j \in 1 .. Len(f) : IsTxnLine(f[j]) /\ f[j].key = committed[i].id)

\* ForEach("", true) has returned on a log with one transaction in the
\* archive and a later one in the active file.
C5_Witness ==
    /\ ForEachAllReturned
    /\ \E j \in 1 .. Len(af) : IsTxnLine(af[j])
    /\ \E j \in 1 .. Len(f) : IsTxnLine(f[j])
    /\ PutDel(ret.out) # <<>>

\* C6: when the last call that wrote was a successful Archive(populate), the
\* Put/Delete lines ForEach("", true) delivers are exactly the records
\* populate wrote, in the order it wrote them.
C6_ForEachAfterArchiveIsSnapshot ==
    (ForEachAllReturned /\ lastw.op = "Archive" /\ lastw.err = Nil) =>
        /\ ret.err = Nil
        /\ PutDel(ret.out) = OpLines(lastw.body)

\* ForEach("", true) has returned right after an Archive whose populate
\* wrote records, on a log with committed transactions.
C6_Witness ==
    /\ ForEachAllReturned /\ lastw.op = "Archive" /\ lastw.err = Nil
    /\ Len(lastw.body) = MaxActs /\ Len(committed) >= 2 /\ PutDel(ret.out) # <<>>

\* C7: after every successful Archive, whatever Txn, Comment, Archive and
\* Close/New calls preceded it, the active file holds exactly one Replay
\* line, it is the first line of the file, and its key is the id of the
\* last transaction committed before that Archive.
C7_ReplayLineNamesLastCommit ==
    (lastw.op = "Archive" /\ lastw.err = Nil) =>
        /\ f # <<>>
        /\ f[1].tag = ReplayLine
        /\ \A i \in 2 .. Len(f) : f[i].tag # ReplayLine
        /\ f[1].key = IF committed = <<>> THEN 0 ELSE Last(committed).id

\* The ids of the TxnInfos handed to fn.
TxnIdsOf(infos) == {infos[i].ID : i \in 1 .. Len(infos)}
\* The TxnInfos with the aggregate the Replay line of `file` opened left out.
NoReplayAggregate(file, infos) ==
    IF infos # <<>> /\ file # <<>> /\ file[1].tag = ReplayLine THEN Tail(infos) ELSE infos
ArchiveStep == narch' = narch + 1 /\ lastw'.op = "Archive" /\ lastw'.err = Nil

\* C8 as stated: the set of transaction ids ForEachTxn("", true) delivers
\* just before a successful Archive equals the set it delivers just after,
\* the aggregate opened by the Replay line not counted.
C8_ArchiveKeepsTxnIds ==
    [][ArchiveStep =>
          TxnIdsOf(ForEachTxnOp(M, 0, TRUE).out)
              = TxnIdsOf(NoReplayAggregate(f', ForEachTxnOp(M', 0, TRUE).out))]_vars

ForEachTxnAfterArchive ==
    /\ ret.op = "ForEachTxn" /\ ret.log = "m" /\ ret.tid = 0 /\ ret.archive
    /\ lastw.op = "Archive" /\ lastw.err = Nil

\* C8 amended: just after a successful Archive(populate), ForEachTxn("",
\* true) reads the active file only.  It delivers one TxnInfo, the aggregate
\* the Replay line opens: its ID is the Replay key (the cell at the time of
\* the Archive) and its Actions are the records populate wrote; no
\* transaction committed before the Archive is delivered on its own.  When
\* the Replay key is empty the call fails to parse it and delivers nothing.
C8_ForEachTxnAfterArchive ==
    ForEachTxnAfterArchive =>
        IF lastw.tid = 0
        THEN ret.err = ErrParse /\ ret.out = <<>>
        ELSE /\ ret.err = Nil
             /\ ret.out = <<[ID |-> lastw.tid, Actions |-> lastw.body]>>
             /\ NoReplayAggregate(f, ret.out) = <<>>

\* ForEachTxn("", true) has returned right after an Archive that moved two
\* committed transactions to the archive and wrote a snapshot.
C8_Witness ==
    /\ ForEachTxnAfterArchive
    /\ Len(committed) >= 2 /\ Len(lastw.body) = MaxActs
    /\ Len(ret.out) = 1 /\ ret.out[1].ID = Last(committed).id

\* The file from its first Transaction line on.
RECURSIVE DropUntilTxn(_)
DropUntilTxn(file) ==
    IF file = <<>> THEN <<>>
    ELSE IF IsTxnLine(Head(file)) THEN file
    ELSE DropUntilTxn(Tail(file))

\* What the two files of the log hold from their first Transaction lines on.
Exported == DropUntilTxn(af) \o DropUntilTxn(f)
ForEachOnB == ret.op = "ForEach" /\ ret.log = "nm" /\ ret.tid = 0 /\ ret.archive

\* rt = 2: Export("") of the log A (no Txn in flight) has been imported
\* into the fresh log B, and A has not been written since.
\* C9 as stated: ForEach("", true) on B then delivers the same sequence of
\* (tag, key, value) tuples as ForEach("", true) on A.
C9_RoundTripSameStream ==
    (rt = 2 /\ ForEachOnB) => ret.out = ForEachOp(M, 0, TRUE).out

\* C9 amended: Export("") writes A's archive from its first Transaction
\* line on followed by A's active file from its first Transaction line on,
\* and ForEach("", true) on B delivers exactly these lines.  A's own
\* ForEach("", true) delivers A's whole active file and nothing of its
\* archive, so the two streams are equal exactly when A's archive holds no
\* Transaction line and A's active file begins with one.
C9_RoundTripExportedLines ==
    (rt = 2 /\ ForEachOnB) =>
        /\ ret.err = Nil
        /\ ret.out = Exported
        /\ (ret.out = ForEachOp(M, 0, TRUE).out)
              <=> (DropUntilTxn(af) = <<>> /\ f # <<>> /\ IsTxnLine(f[1]))

\* ForEach on B has returned after the round trip of a log with one
\* transaction in the archive and a later one in the active file.
C9_Witness ==
    /\ rt = 2 /\ ForEachOnB
    /\ DropUntilTxn(af) # <<>> /\ DropUntilTxn(f) # <<>> /\ narch > 0
    /\ Len(ret.out) >= 2 * (MaxActs + 1)

ExportOfEarlierTxn ==
    /\ ret.op = "Export" /\ ret.tid # 0 /\ IsCommitted(ret.tid)
    /\ ret.tid # Last(committed).id
    /\ txn = NoTxn /\ nfail = 0 /\ ncomm = 0

\* C11: for a committed transaction id t other than the last committed one,
\* after Txn and Archive calls, Export(t, w) succeeds and its payload is
\* exactly the lines of the transactions committed after t, in commit order,
\* from the first Transaction line after t on: no line of t or of an earlier
\* transaction, no Replay line and no snapshot line.
C11_ExportAfterT ==
    ExportOfEarlierTxn =>
        /\ ret.err = Nil
        /\ ret.out = History(CommittedAfter(committed, ret.tid))

\* C12: Export(tid, w) with a non-empty tid equal to the current last-txn
\* id fails with ErrNoTxn and writes nothing to w.
C12_ExportOfLastTxn ==
    (ret.op = "Export" /\ ret.tid # 0 /\ ret.tid = ltxn) =>
        /\ ret.err = ErrNoTxn
        /\ ret.out = <<>>
        /\ w = NoW

\* Export(ltxn) has returned on a log with archived and active transactions.
C12_Witness ==
    /\ ret.op = "Export" /\ ret.tid # 0 /\ ret.tid = ltxn
    /\ DropUntilTxn(af) # <<>> /\ DropUntilTxn(f) # <<>>

\* The keys of the Transaction and Replay lines of a file.
KeysOf(file) ==
    {file[i].key : i \in {j \in 1 .. Len(file) : file[j].tag \in {TransactionLine, ReplayLine}}}

\* C13: Export(tid, w) with a non-empty tid that is the key of no
\* Transaction or Replay line of the archive file or the active file fails
\* with ErrInvalidTxn, wherever tid lies in time relative to the first
\* transaction of the active file.
C13_ExportUnknownTid ==
    (ret.op = "Export" /\ ret.tid # 0 /\ ret.tid \notin (KeysOf(af) \cup KeysOf(f))) =>
        ret.err = ErrInvalidTxn

\* The step in which Import returns, having drained the stream w.
ImportStep == ret'.op = "Import" /\ w # NoW /\ w' = NoW

\* The stream does not carry the signature of its payload under the token
\* of the importing log.
VerificationFails(r) == r.sig # Sign(nm.name, r.data)

\* C14: if verification of the imported stream fails (wrong token or any
\* altered payload), Import returns an error, does not invoke fn, and
\* leaves the active file unchanged.
C14_FailedImportAppendsNothing ==
    [][(ImportStep /\ VerificationFails(w)) =>
          /\ ret'.err # Nil
          /\ ret'.out = <<>>
          /\ nm' = nm]_vars

\* Import has failed on a log that already holds imported lines.
C14_Witness ==
    /\ ret.op = "Import" /\ ret.err = ErrVerify /\ ret.out = <<>>
    /\ nm.f # <<>> /\ w = NoW

\* The key of the last Transaction or Replay line of a payload, 0 for none.
LastKey(data) ==
    LET S == {i \in 1 .. Len(data) : data[i].tag \in {TransactionLine, ReplayLine}}
    IN IF S = {} THEN 0
       ELSE data[CHOOSE i \in S : \A j \in S : j <= i].key

\* C15: a successful Import appends the payload lines to the active file
\* in payload order, invokes fn once per payload line in that order, and
\* returns the key of the last Transaction or Replay line of the payload
\* ("" when there is none).
C15_ImportAppendsAndReplays ==
    [][(ImportStep /\ ret'.err = Nil) =>
          /\ nm'.f = nm.f \o w.data
          /\ ret'.out = w.data
          /\ ret'.val = LastKey(w.data)]_vars

\* Import has succeeded with a payload of two transactions on a log that
\* already held lines.
C15_Witness ==
    /\ ret.op = "Import" /\ ret.err = Nil
    /\ Len(nm.f) > Len(ret.out)
    /\ Cardinality(KeysOf(ret.out)) >= 2
    /\ ret.val = LastKey(ret.out)

\* C16: after Close has returned, a second Close returns ErrIsClosed, and
\* every other operation returns ErrIsClosed and changes neither file.
C16_ClosedLogRejects ==
    [][(closed /\ closed') =>
          /\ ret'.err = ErrIsClosed
          /\ f' = f
          /\ af' = af]_vars

\* The places in the active file of the lines the call c wrote.
Idx(c) == {i \in 1 .. Len(f) : own.by[i] = c}
MinOf(S) == CHOOSE i \in S : \A j \in S : i <= j
MaxOf(S) == CHOOSE i \in S : \A j \in S : j <= i

\* The lines of every call lie next to each other in the active file.
Contiguous ==
    \A c \in 1 .. own.n : \A i, k \in Idx(c) : \A j \in i .. k : j \in Idx(c)

\* What a call wrote to the active file is what that call itself encoded.
NoLeak ==
    \A c \in 1 .. own.n :
        Idx(c) # {} => SubSeq(f, MinOf(Idx(c)), MaxOf(Idx(c))) = own.want[c]

\* C17: for any interleaving of concurrent Txn, Comment, Archive and Import
\* calls, the lines written by one call are contiguous in the active file,
\* and no call's scratch-buffer content leaks into another call's output.
C17_WritersDoNotInterleave ==
    /\ Len(own.by) = Len(f)
    /\ Contiguous
    /\ NoLeak

\* The Transaction lines of the log's own transactions in a file.
OwnTxnLines(file) == {i \in 1 .. Len(file) : file[i].tag = TransactionLine /\ file[i].key <= MaxTxn}

\* A Txn is about to write while an Import waits for the appender, the
\* active file holds the lines of an earlier call, and a Txn has failed.
C17_Witness ==
    /\ \E p, q \in Procs :
          /\ pc[p].op = "Txn" /\ pc[p].step = 3
          /\ pc[q].op = "Import" /\ pc[q].step = 1
    /\ f # <<>>
    /\ Cardinality(OwnTxnLines(f)) + Cardinality(OwnTxnLines(af)) < ug - 1

IsPrefix(s, t) == Len(s) <= Len(t) /\ SubSeq(t, 1, Len(s)) = s

\* Every Transaction line of the file is followed by all the lines of its
\* body, and every Put/Delete line of a transaction follows its
\* Transaction line.
WholeTxns(file) ==
    /\ \A i \in 1 .. Len(file) :
          file[i].tag = TransactionLine =>
              /\ i + MaxActs <= Len(file)
              /\ SubSeq(file, i, i + MaxActs) = txnBuf(file[i].key, Body(file[i].key, MaxActs))
    /\ \A j \in 1 .. Len(file) :
          (file[j].tag \in {PutLine, DeleteLine} /\ file[j].key \in (1 .. MaxTxn) \cup {ImportKey}) =>
              \E i \in 1 .. j - 1 :
                  /\ file[i].tag = TransactionLine /\ file[i].key = file[j].key
                  /\ j - i <= MaxActs

FnReturned(what) ==
    /\ ret.op \in {"ForEach", "ForEachTxn"}
    /\ cb.what = what
    /\ Len(ret.out) >= cb.at

\* C19: when the callback of ForEach, ForEachRaw or ForEachTxn returns the
\* early-exit sentinel, the iterator returns without error and the
\* callback is not invoked again during that call, whichever file the
\* delivered line came from.
C19_SentinelStopsIteration ==
    FnReturned(ErrEndEarly) =>
        /\ ret.err = Nil
        /\ Len(ret.out) = cb.at

\* C20: when the callback of ForEach, ForEachRaw or ForEachTxn returns an
\* error other than the sentinel, the iterator stops invoking the callback
\* and returns exactly that error.
C20_CallbackErrorIsReturned ==
    FnReturned(ErrFn) =>
        /\ ret.err = ErrFn
        /\ Len(ret.out) = cb.at

\* ForEachTxn("", true) has returned on the log, with no Txn in flight.
ForEachTxnAllReturned ==
    /\ ret.op = "ForEachTxn" /\ ret.log = "m" /\ ret.tid = 0 /\ ret.archive
    /\ txn = NoTxn

\* The TxnInfo of a committed transaction.
InfoOf(t) == [ID |-> t.id, Actions |-> t.acts]

\* C21: on a log that has never been archived, ForEachTxn("", true, fn)
\* invokes fn exactly once per committed transaction, in commit order, with
\* a TxnInfo whose ID is the transaction's id and whose Actions are the
\* Put/Delete operations of its body; Comment lines add no action and open
\* no aggregate.
C21_ForEachTxnOncePerCommit ==
    (ForEachTxnAllReturned /\ narch = 0) =>
        /\ ret.err = Nil
        /\ ret.out = [i \in 1 .. Len(committed) |-> InfoOf(committed[i])]

\* ForEachTxn("", true) has returned on a never-archived log that holds two
\* committed transactions, a Comment line, and the trace of a failed Txn.
C21_Witness ==
    /\ ForEachTxnAllReturned /\ narch = 0
    /\ Len(committed) >= 2 /\ ncomm >= 1 /\ nfail >= 1
    /\ Len(ret.out) = Len(committed)
    /\ \E i \in 1 .. Len(f) : f[i].tag = CommentLine

\* The step in which a Put or a Delete on a dead handle ends.
LatePutStep == ret' # ret /\ ret'.op \in {"Put", "Delete"}

\* C22: a Txn handle is dead once its owning callback has returned: a later
\* Put or Delete on a retained handle returns an error and appends nothing
\* to the scratch buffer or to any file.
C22_DeadHandleReturnsError ==
    [][LatePutStep =>
          /\ ret'.err \notin {Nil, Panic}
          /\ lbuf' = lbuf
          /\ f' = f
          /\ af' = af]_vars

\* The step in which a Comment call on the open log returns.
CommentStep == ncomm' = ncomm + 1 /\ lastw'.op = "Comment" /\ ret'.err = Nil

\* The log after the step.
MAfter == [f |-> f', af |-> af', ltxn |-> ltxn', closed |-> closed', name |-> "testing"]

\* C23: Comment(b) appends exactly one Comment line with key b to the
\* active file and nothing else: it leaves LastTxn unchanged, opens no
\* transaction, and adds no action to any TxnInfo delivered by ForEachTxn.
C23_CommentAppendsOneLine ==
    [][CommentStep =>
          /\ f' = Append(f, Line(CommentLine, lastw'.tid, 0))
          /\ af' = af
          /\ ltxn' = ltxn
          /\ LastTxnOp(MAfter) = LastTxnOp(M)
          /\ committed' = committed /\ txn' = txn
          /\ \A tid \in TxnIds, archive \in BOOLEAN :
                ForEachTxnOp(MAfter, tid, archive) = ForEachTxnOp(M, tid, archive)]_vars

\* A Comment line has been appended right after the last operation of a
\* committed transaction.
C23_Witness ==
    /\ lastw.op = "Comment" /\ ret.op = "Comment" /\ ret.err = Nil
    /\ ltxn # 0
    /\ Len(f) >= 2
    /\ f[Len(f)].tag = CommentLine
    /\ f[Len(f) - 1].tag \in {PutLine, DeleteLine}

\* C24: single linear history: after any sequence of successful Txn,
\* Comment and Archive calls, the archive file followed by the active file
\* (from its first Transaction line) holds the Transaction line of every
\* committed transaction exactly once, in commit order, each followed by
\* exactly the Put/Delete lines of its body; Archive loses no transaction,
\* duplicates none, and moves no Replay or snapshot line into the archive.
C24_SingleLinearHistory ==
    (txn = NoTxn /\ nfail = 0) =>
        /\ SelectSeq(af \o DropUntilTxn(f), NotComment) = History(committed)
        /\ \A i \in 1 .. Len(af) : af[i].tag # ReplayLine /\ af[i].key < SnapKey

\* The active file holds a Replay line and snapshot lines only.
OnlyReplayAndSnapshot(file) ==
    /\ file # <<>>
    /\ file[1].tag = ReplayLine
    /\ \A i \in 2 .. Len(file) : IsData(file[i])

\* C25: an Archive call made when no transaction has been committed since
\* the previous Archive (the active file holds only the Replay line and
\* snapshot lines, with no Transaction line) appends nothing to the archive
\* file.
C25_IdleArchiveAppendsNothing ==
    [][(ArchiveStep /\ OnlyReplayAndSnapshot(f)) => af' = af]_vars

\* The index of the last line before i whose tag is in `tags`, 0 if none.
Opener(file, i, tags) ==
    LET S == {j \in 1 .. i - 1 : file[j].tag \in tags}
    IN IF S = {} THEN 0 ELSE MaxOf(S)

Ascending(file) ==
    \A i, j \in 1 .. Len(file) :
        (i < j /\ file[i].tag = TransactionLine /\ file[j].tag = TransactionLine)
            => file[i].key < file[j].key

\* C27: in every state reachable by Txn, Comment, Archive and Import, the
\* keys of the Transaction lines are strictly ascending within the archive
\* file, within the active file, and across the archive file followed by
\* the active file, in the exporting log and in the importing one.
C27_TxnKeysAscending ==
    /\ Ascending(af) /\ Ascending(f) /\ Ascending(af \o f)
    /\ Ascending(nm.af) /\ Ascending(nm.f) /\ Ascending(nm.af \o nm.f)

\* The match states after each line of `file` from cursor c on.
RECURSIVE MatchStates(_, _, _, _)
MatchStates(file, c, state, tid) ==
    IF c >= Len(file) THEN <<>>
    ELSE LET st == MatchFilter(state, tid, file[c + 1])
         IN <<st>> \o MatchStates(file, c + 1, st, tid)

\* The lines of `file` whose index is in S, in file order.
RECURSIVE Pick(_, _, _)
Pick(file, S, i) ==
    IF i > Len(file) THEN <<>>
    ELSE (IF i \in S THEN <<file[i]>> ELSE <<>>) \o Pick(file, S, i + 1)

\* The Transaction and Replay lines of `file`.
Openers(file) == {i \in 1 .. Len(file) : file[i].tag \in {TransactionLine, ReplayLine}}

\* What a Match filter for tid does on one file, read from its first line.
MatchRun(file, tid) ==
    LET st == MatchStates(file, 0, NewMatch(tid), tid)
        before(i) == IF i = 1 THEN NewMatch(tid) ELSE st[i - 1]
        out == readLines(file, 0, NewMatch(tid), tid, <<>>).out
        Hit == {i \in Openers(file) : file[i].key = tid}
        After == {j \in Openers(file) : Hit # {} /\ j > MinOf(Hit)}
    IN /\ (NewMatch(tid) = statePostMatch) <=> (tid = 0)
       /\ tid # 0 => NewMatch(tid) = statePreMatch
       /\ \A i \in 1 .. Len(file) :
            /\ st[i] \in {statePreMatch, stateMatch, statePostMatch}
            /\ st[i] = before(i) \/ st[i] = before(i) + 1
       /\ out = Pick(file, {i \in 1 .. Len(file) : st[i] = statePostMatch}, 1)
       /\ tid = 0 => out = file
       /\ tid # 0 =>
            out = IF After = {} THEN <<>> ELSE SubSeq(file, MinOf(After), Len(file))

\* C28: the Match filter starts in PostMatch iff tid is empty and otherwise
\* in PreMatch, and only moves PreMatch -> Match -> PostMatch; a line
\* passes iff the state is PostMatch after it, so the Transaction or Replay
\* line whose key equals tid and the Put/Delete/Comment lines after it are
\* withheld, and the first line passed is the next Transaction or Replay
\* line.
C28_MatchFilterStateMachine ==
    \A tid \in TxnIds : MatchRun(f, tid) /\ MatchRun(af, tid)

\* ForEach from a transaction of the active file has returned: the lines
\* of that transaction were withheld, the stream starts at the next
\* Transaction line and a Comment line was passed.
C28_Witness ==
    /\ ret.op = "ForEach" /\ ret.log = "m" /\ ~ret.archive
    /\ ret.tid # 0 /\ ret.err = Nil
    /\ \E i \in 1 .. Len(f) - 2 :
        /\ f[i].tag = TransactionLine /\ f[i].key = ret.tid
        /\ IsData(f[i + 1])
        /\ \E j \in i + 2 .. Len(f) :
            /\ f[j].tag = TransactionLine
            /\ ret.out = SubSeq(f, j, Len(f))
            /\ \A k \in i + 1 .. j - 1 : f[k].tag \notin {TransactionLine, ReplayLine}
    /\ \E i \in 1 .. Len(ret.out) : ret.out[i].tag = CommentLine

\* newTxnForEacher: the forEacher ForEachTxn starts with.
newTxnForEacher(tid) == [state |-> NewMatch(tid), ti |-> NoTi, out |-> <<>>, err |-> Nil]

\* No Transaction or Replay line of either file carries tid.
MatchedNowhere(tid) ==
    \A i \in Openers(af) \cup Openers(f) :
        (i \in Openers(af) => af[i].key # tid) /\ (i \in Openers(f) => f[i].key # tid)

\* C29: when an iteration with archive = true scans the archive file and
\* then the active file, the match state at the start of the active-file
\* scan is the match state at the end of the archive scan; a tid matched in
\* neither file leaves the iterator in PreMatch and nothing is delivered,
\* by ForEach and by ForEachTxn.
C29_MatchStatePersists ==
    \A tid \in TxnIds :
        (~closed /\ af # <<>> /\ ~isInCurrent(M, tid)) =>
            LET a == txnReadLines(af, 0, newTxnForEacher(tid), tid)
            IN /\ a.err = Nil => afterArchive(a).state = a.state
               /\ MatchedNowhere(tid) =>
                    /\ ForEachOp(M, tid, TRUE).out = <<>>
                    /\ ForEachTxnOp(M, tid, TRUE).out = <<>>

\* MrT.Filter + MrT.ForEachRaw: the lines handed to fn, undecoded.
ForEachRawOp(m, txnID, archive) ==
    IF m.closed THEN [err |-> ErrIsClosed, out |-> <<>>]
    ELSE IF txnID # 0 /\ txnID = m.ltxn THEN [err |-> Nil, out |-> <<>>]
    ELSE filter(m, txnID, archive)

\* The Put/Delete lines of a stream as action records.
RECURSIVE ActionsOfLines(_)
ActionsOfLines(lines) ==
    IF lines = <<>> THEN <<>>
    ELSE (IF IsData(lines[1])
          THEN <<newActionInfo(lines[1].tag = PutLine, lines[1].key, lines[1].val)>>
          ELSE <<>>) \o ActionsOfLines(Tail(lines))

\* The Actions lists of a sequence of TxnInfos, concatenated.
RECURSIVE ActionsOfInfos(_)
ActionsOfInfos(infos) ==
    IF infos = <<>> THEN <<>>
    ELSE infos[1].Actions \o ActionsOfInfos(Tail(infos))

\* C30: the three iterators share one selection of lines: for every log
\* state, tid and archive flag, the Put/Delete records delivered by ForEach
\* are the Put/Delete lines delivered by ForEachRaw and are the
\* concatenation of the Actions lists of the TxnInfos delivered by
\* ForEachTxn.
C30_IteratorsShareSelection ==
    \A tid \in TxnIds, archive \in BOOLEAN :
        /\ ActionsOfLines(ForEachOp(M, tid, archive).out)
             = ActionsOfLines(ForEachRawOp(M, tid, archive).out)
        /\ ActionsOfLines(ForEachOp(M, tid, archive).out)
             = ActionsOfInfos(ForEachTxnOp(M, tid, archive).out)

\* How many of the TxnInfos carry the id.
IdCount(infos, id) == Cardinality({i \in 1 .. Len(infos) : infos[i].ID = id})

\* How many lines of the file have the tag and the key.
LineCount(file, tag, id) ==
    Cardinality({i \in 1 .. Len(file) : file[i].tag = tag /\ file[i].key = id})

LastCommitted == IF committed = <<>> THEN 0 ELSE Last(committed).id

\* C32: after Close and a new New on the same directory and name, LastTxn
\* returns the id of the last transaction committed before the reopen, for
\* any preceding sequence of Txn, Comment and Archive calls, also when the
\* last operation before Close was an Archive.
C32_LastTxnSurvivesReopen ==
    (lastw.op = "New" /\ ~closed) =>
        LastTxnOp(M).err = Nil /\ LastTxnOp(M).id = LastCommitted

\* C33: Import does not change the last-txn cell: LastTxn returns after a
\* successful Import what it returned before it, also when the payload
\* appended Transaction lines; the cell of a log is written only by a
\* successful Txn on that log.
C33_ImportKeepsLastTxn ==
    [][/\ (ImportStep /\ ret'.err = Nil) =>
            LastTxnOp([nm EXCEPT !.ltxn = nm'.ltxn]) = LastTxnOp(nm)
       /\ nm'.ltxn = nm.ltxn
       /\ ltxn' # ltxn => (txn # NoTxn /\ txn' = NoTxn /\ ltxn' = txn.id)]_vars

\* A successful Import has appended Transaction lines and returned the id
\* of the last one, and the cell of the importing log is still empty.
C33_Witness ==
    /\ ret.op = "Import" /\ ret.err = Nil /\ ret.val # 0
    /\ \E i \in 1 .. Len(nm.f) : nm.f[i].tag = TransactionLine /\ nm.f[i].key = ret.val
    /\ LastTxnOp(nm).id = 0

\* ------------------------------------------------- Archive and the disk
\* One goroutine; a file's bytes reach the disk when the file is synced.
\* Txn with its a.Sync before ltxn.Store.
STxn(n) ==
    /\ pc[1] = Idle
    /\ ~closed
    /\ ug < MaxTxn
    /\ ug' = ug + 1
    /\ f' = f \o txnBuf(ug + 1, Body(ug + 1, n))
    /\ disk' = [disk EXCEPT !.f = f']
    /\ ltxn' = txnStore(ltxn, ug + 1)
    /\ committed' = Append(committed, [id |-> ug + 1, acts |-> Body(ug + 1, n)])
    /\ UNCHANGED <<af, closed, txn, nm, w, ret, narch, ncomm, nexp, nfail, nopen, rt, impTxn, lastw, cb, hnd, lbuf, pc, own, view, wire, rdrs>>

\* Archive: m.f.With entered, aw := m.af.Writer(), getFirstCommit,
\* PrevLine, io.Copy(aw, f).  On an error the deferred aw.Close syncs the
\* archive file (SyncAfterWriterClose).
SArchiveCopy(n, fail) ==
    /\ pc[1] = Idle
    /\ ~closed
    /\ narch < MaxArchive
    /\ fail => nfail < MaxFail
    /\ narch' = narch + 1
    /\ LET pl == PrevLine(getFirstCommit(f))
       IN IF pl.err # Nil
          THEN /\ af' = af
               /\ disk' = [disk EXCEPT !.af = af]
               /\ pc' = pc
          ELSE /\ af' = af \o SubSeq(f, pl.c + 1, Len(f))
               /\ disk' = disk
               /\ pc' = [pc EXCEPT ![1] = [op |-> "Archive", step |-> 2, call |-> 0,
                                           lines |-> <<>>, fail |-> fail, tid |-> 0, n |-> n]]
    /\ UNCHANGED <<f, ltxn, closed, ug, txn, nm, w, ret, committed, ncomm, nexp, nfail, nopen, rt, impTxn, lastw, cb, hnd, lbuf, own, view, wire, rdrs>>

\* Archive: f.Truncate(0), f.Seek; nothing is synced.
SArchiveTruncate ==
    /\ pc[1].op = "Archive" /\ pc[1].step = 2
    /\ f' = <<>>
    /\ pc' = [pc EXCEPT ![1].step = 3]
    /\ UNCHANGED <<af, ltxn, closed, ug, txn, nm, w, ret, committed, narch, ncomm, nexp, nfail, nopen, rt, impTxn, lastw, cb, hnd, lbuf, own, view, disk, wire, rdrs>>

\* Archive: lbuf.Update with the Replay line, populate, f.Write and
\* f.Sync, or populate's error before f.Write; then the deferred aw.Close,
\* which syncs the archive file.
SArchiveWrite ==
    /\ pc[1].op = "Archive" /\ pc[1].step = 3
    /\ IF pc[1].fail
       THEN /\ f' = f
            /\ disk' = [disk EXCEPT !.af = af]
            /\ nfail' = nfail + 1
       ELSE /\ f' = archiveBuf(ltxn, Body(SnapKey + narch - 1, pc[1].n))
            /\ disk' = [f |-> f', af |-> af]
            /\ nfail' = nfail
    /\ pc' = [pc EXCEPT ![1] = Idle]
    /\ UNCHANGED <<af, ltxn, closed, ug, txn, nm, w, ret, committed, narch, ncomm, nexp, nopen, rt, impTxn, lastw, cb, hnd, lbuf, own, view, wire, rdrs>>

\* The machine loses power and the log is opened again with New: of each
\* file either everything written or only what was synced is found, and
\* the cell is set by the startup scan.
Crash ==
    /\ nopen < MaxReopen
    /\ nopen' = nopen + 1
    /\ \E nf \in {f, disk.f}, naf \in {af, disk.af} :
        /\ f' = nf
        /\ af' = naf
        /\ disk' = [f |-> nf, af |-> naf]
        /\ ltxn' = scanLastTxn(nf, 0, 0)
    /\ pc' = [pc EXCEPT ![1] = Idle]
    /\ UNCHANGED <<closed, ug, txn, nm, w, ret, committed, narch, ncomm, nexp, nfail, rt, impTxn, lastw, cb, hnd, lbuf, own, view, wire, rdrs>>

NextS ==
    \/ \E n \in TxnLens : STxn(n)
    \/ \E n \in SnapLens, fail \in BOOLEAN : SArchiveCopy(n, fail)
    \/ SArchiveTruncate
    \/ SArchiveWrite
    \/ Crash

SpecS == Init /\ [][NextS]_vars

\* The lines occur in the file, one after the other.
InFile(lines, file) ==
    \E k \in 0 .. Len(file) - Len(lines) : SubSeq(file, k + 1, k + Len(lines)) = lines

\* C34: during Archive the copy of the active file's history into the
\* archive file is synced before the active file is truncated, so that at
\* every instant, and after a crash at any step, every committed
\* transaction is present in the archive file or in the active file.
C34_ArchiveSyncsBeforeTruncate ==
    /\ (pc[1].op = "Archive" /\ pc[1].step = 3) => disk.af = af
    /\ \A i \in 1 .. Len(committed) :
        InFile(TxnLines(committed[i]), af) \/ InFile(TxnLines(committed[i]), f)

\* C35: if populate returns an error, Archive returns that error and
\* leaves the active file and the archive file with the contents they had
\* before the call; the active file is never left truncated without a
\* Replay line and snapshot.
C35_FailedArchiveLeavesFiles ==
    [][(narch' = narch + 1 /\ ret'.op = "Archive" /\ ret'.err = ErrBody)
            => f' = f /\ af' = af]_vars

\* ------------------------------------------- lines with an undefined tag
\* A tag that is none of the five defined ones.
UnknownLine == DeleteLine + 1
InvalidTag(t) == t \notin {TransactionLine, ReplayLine, CommentLine, PutLine, DeleteLine}
HasInvalid(file) == \E i \in 1 .. Len(file) : InvalidTag(file[i].tag)

\* Match.Filter: the error it returns.  The post-match fast track returns
\* before the line type is looked at.
MatchFilterErr(state, ln) ==
    IF state = statePostMatch THEN Nil
    ELSE IF InvalidTag(ln.tag) THEN ErrInvalidLine
    ELSE Nil

\* MrT.processLine, called by ForEach's wrapper before fn: the error it returns.
processLineErr(ln) == IF InvalidTag(ln.tag) THEN ErrInvalidLine ELSE Nil

\* seeker.ReadLines(filter.processLine) on a file that may hold any tag:
\* the lines handed to the caller's fn and the error that ended the scan.
\* ForEach decodes the line before fn, ForEachRaw hands the bytes to fn.
RECURSIVE readLinesAnyTag(_, _, _, _, _, _)
readLinesAnyTag(file, c, state, tid, out, decode) ==
    IF c >= Len(file) THEN [err |-> Nil, out |-> out]
    ELSE LET ln == file[c + 1]
             st == MatchFilter(state, tid, ln)
         IN IF MatchFilterErr(state, ln) # Nil
            THEN [err |-> MatchFilterErr(state, ln), out |-> out]
            ELSE IF st # statePostMatch
            THEN readLinesAnyTag(file, c + 1, st, tid, out, decode)
            ELSE IF decode /\ processLineErr(ln) # Nil
            THEN [err |-> processLineErr(ln), out |-> out]
            ELSE readLinesAnyTag(file, c + 1, st, tid, Append(out, ln), decode)

\* MrT.Filter with archive = false under ForEach (decode) and ForEachRaw.
ForEachAnyTagOp(m, txnID, decode) ==
    IF m.closed THEN [err |-> ErrIsClosed, out |-> <<>>]
    ELSE IF txnID # 0 /\ txnID = m.ltxn THEN [err |-> Nil, out |-> <<>>]
    ELSE readLinesAnyTag(m.f, 0, NewMatch(txnID), txnID, <<>>, decode)

\* The active file comes to hold a line with an undefined tag (tag 0 or a
\* tag above the defined ones): one line of it is overwritten.
Corrupt(i, t) ==
    /\ txn = NoTxn
    /\ ~HasInvalid(f)
    /\ i \in 1 .. Len(f)
    /\ f' = [f EXCEPT ![i].tag = t]
    /\ ret' = Ret("Corrupt", "m", 0, FALSE, Nil, <<>>, 0)
    /\ UNCHANGED <<af, ltxn, closed, ug, txn, nm, w, committed, narch, ncomm, nexp, nfail, nopen, rt, impTxn, lastw, cb, cvars>>

IForEach(txnID) ==
    /\ LET r == ForEachAnyTagOp(M, txnID, TRUE)
       IN ret' = Ret("ForEach", "m", txnID, FALSE, r.err, r.out, 0)
    /\ UNCHANGED <<f, af, ltxn, closed, ug, txn, nm, w, committed, narch, ncomm, nexp, nfail, nopen, rt, impTxn, lastw, cb, cvars>>

IForEachRaw(txnID) ==
    /\ LET r == ForEachAnyTagOp(M, txnID, FALSE)
       IN ret' = Ret("ForEachRaw", "m", txnID, FALSE, r.err, r.out, 0)
    /\ UNCHANGED <<f, af, ltxn, closed, ug, txn, nm, w, committed, narch, ncomm, nexp, nfail, nopen, rt, impTxn, lastw, cb, cvars>>

NextI ==
    \/ \E n \in TxnLens : TxnBegin(Body(ug + 1, n), FALSE)
    \/ TxnCommit
    \/ \E b \in CommentKeys : Comment(b)
    \/ \E i \in 1 .. MaxTxn * (MaxActs + 1) + MaxComment, t \in {NilLine, UnknownLine} : Corrupt(i, t)
    \/ \E tid \in TxnIds : IForEach(tid)
    \/ \E tid \in TxnIds : IForEachRaw(tid)
    \/ \E tid \in TxnIds : ForEachTxn("m", tid, FALSE)

SpecI == Init /\ [][NextI]_vars

\* An iterator returns from a scan of an active file that holds a line
\* with an undefined tag.
ScansInvalidLine ==
    /\ ret' # ret
    /\ ret'.op \in {"ForEach", "ForEachRaw", "ForEachTxn"}
    /\ HasInvalid(f)
    /\ ~(ret'.op # "ForEachTxn" /\ ret'.tid # 0 /\ ret'.tid = ltxn)

\* C39: whenever ForEach, ForEachRaw or ForEachTxn scans a line whose tag
\* is not one of the five defined tags (tag 0 included), in any match
\* state, the iteration returns ErrInvalidLine and does not hand that line
\* to the callback.
C39_InvalidTagAbortsIteration ==
    [][ScansInvalidLine =>
            /\ ret'.err = ErrInvalidLine
            /\ ret'.op # "ForEachTxn" => ~HasInvalid(ret'.out)]_vars

\* ------------------------------------------------ the line codec, in bytes
\* A byte string is a sequence of numbers in 0 .. 255.  A u64 is its eight
\* little-endian bytes, so that sums wrap at 2^64 as Go's do.
Newline == 10
PrefixLen == 8
ByteRange == 256

\* The variables of the line-level model.
lvars == <<f, af, ltxn, closed, ug, txn, nm, w, ret, committed, narch, ncomm, nexp, nfail, nopen, rt, impTxn, lastw, cb, hnd, lbuf, pc, own, view, disk, rdrs>>

\* binary.LittleEndian.PutUint64 of a length below 2^16.
U64(n) ==
    [i \in 1 .. PrefixLen |->
        IF i = 1 THEN n % ByteRange
        ELSE IF i = 2 THEN (n \div ByteRange) % ByteRange
        ELSE 0]

RECURSIVE AddCarry(_, _, _, _)
AddCarry(x, y, i, c) ==
    IF i > PrefixLen
    THEN <<>>
    ELSE LET s == x[i] + y[i] + c
         IN <<s % ByteRange>> \o AddCarry(x, y, i + 1, s \div ByteRange)

\* uint64 addition: the carry out of the top byte is dropped.
Add64(x, y) == AddCarry(x, y, 1, 0)

RECURSIVE LtFrom(_, _, _)
LtFrom(x, y, i) ==
    IF i = 0 THEN FALSE
    ELSE IF x[i] # y[i] THEN x[i] < y[i]
    ELSE LtFrom(x, y, i - 1)

\* uint64 comparison x < y.
Lt64(x, y) == LtFrom(x, y, PrefixLen)

\* A u64 below 2^16, and its value.
IsInt(x) == \A i \in 3 .. PrefixLen : x[i] = 0
ToInt(x) == x[1] + ByteRange * x[2]

\* Go's slice expression b[lo:hi] on a slice of capacity cap panics unless
\* lo <= hi <= cap; it may reach past len(b).
SliceOK(lo, hi, cap) == ~Lt64(hi, lo) /\ ~Lt64(U64(cap), hi)
Slice(all, lo, hi) == SubSeq(all, ToInt(lo) + 1, ToInt(hi))

KV(key, value, fault, over) == [key |-> key, value |-> value, fault |-> fault, over |-> over]

\* getKV on the slice b whose backing array holds slack after b's last
\* byte.  fault: a slice expression panicked; over: bytes past len(b) were
\* read.  key is a named result: it stays set when a later check returns.
getKV(b, slack) ==
    LET all == b \o slack
        cap == Len(all)
        blen == U64(Len(b))
        idx0 == U64(PrefixLen)
    IN IF Lt64(blen, idx0)
       THEN KV(<<>>, <<>>, FALSE, FALSE)
       ELSE
       LET lv1 == SubSeq(all, 1, PrefixLen)
           idx1 == Add64(idx0, lv1)
       IN IF Lt64(blen, idx1)
          THEN KV(<<>>, <<>>, FALSE, FALSE)
          ELSE IF ~SliceOK(idx0, Add64(lv1, idx0), cap)
          THEN KV(<<>>, <<>>, TRUE, FALSE)
          ELSE
          LET key == Slice(all, idx0, idx1)
              idx2 == Add64(idx1, U64(PrefixLen))
          IN IF Lt64(blen, idx1)
             THEN KV(key, <<>>, FALSE, FALSE)
             ELSE IF ~SliceOK(idx1, idx2, cap)
             THEN KV(<<>>, <<>>, TRUE, FALSE)
             ELSE
             LET lv2 == Slice(all, idx1, idx2)
                 over == Lt64(blen, idx2)
                 end == Add64(lv2, idx2)
             IN IF Lt64(blen, end)
                THEN KV(key, <<>>, FALSE, over)
                ELSE IF ~SliceOK(idx2, end, cap)
                THEN KV(<<>>, <<>>, TRUE, over)
                ELSE KV(key, Slice(all, idx2, end), FALSE, over)

\* MrT.writeBytes and MrT.writeLine with no middleware.
writeBytes(b) == U64(Len(b)) \o b
writeLineBytes(buf, lineType, key, value) ==
    buf \o <<lineType>> \o writeBytes(key) \o writeBytes(value) \o <<Newline>>

\* seeker.ReadLines: the bytes before each newline, in order; bytes after
\* the last newline are not a line.
SplitLines(bytes) ==
    LET nl == {i \in 1 .. Len(bytes) : bytes[i] = Newline}
        pos(k) == CHOOSE i \in nl : Cardinality({j \in nl : j < i}) = k - 1
        start(k) == IF k = 1 THEN 1 ELSE pos(k - 1) + 1
    IN [k \in 1 .. Cardinality(nl) |-> SubSeq(bytes, start(k), pos(k) - 1)]

\* MrT.processLine on one line of the scanner.
processLineBytes(ln, slack) ==
    IF ln = <<>>
    THEN [err |-> ErrEOF, line |-> Line(NilLine, <<>>, <<>>)]
    ELSE IF Head(ln) \in {TransactionLine, ReplayLine, CommentLine, PutLine, DeleteLine}
    THEN LET kv == getKV(Tail(ln), slack)
         IN IF kv.fault
            THEN [err |-> "panic", line |-> Line(Head(ln), <<>>, <<>>)]
            ELSE [err |-> Nil, line |-> Line(Head(ln), kv.key, kv.value)]
    ELSE [err |-> ErrInvalidLine, line |-> Line(Head(ln), <<>>, <<>>)]

\* MrT.ForEach("", false, fn) with an fn that records what it is given:
\* the Match filter is past its match from the start.
RECURSIVE ForEachBytes(_, _, _)
ForEachBytes(lns, slack, out) ==
    IF lns = <<>>
    THEN [out |-> out, err |-> Nil]
    ELSE LET r == processLineBytes(Head(lns), slack)
         IN IF r.err # Nil
            THEN [out |-> out, err |-> r.err]
            ELSE ForEachBytes(Tail(lns), slack, Append(out, r.line))

\* ------------------------------------------------------------ bounds
MaxWireTxn == 2
MaxPad == 8

Rep(byte, n) == [i \in 1 .. n |-> byte]

\* Keys and values: plain, holding a newline, and of length 10.
WireKeys == {<<65>>, <<Newline>>, <<65, Newline>>, Rep(65, Newline)}
WireVals == {<<>>, <<66>>, <<Newline, 66>>, Rep(66, Newline)}
\* What the scanner's buffer holds after the line: nothing, or bytes left
\* from a longer line.
WireSlacks == {<<>>, Rep(0, MaxPad), Rep(255, MaxPad)}

\* The id of the n-th transaction, as bytes (one digit stands for the uuid).
TxnIdBytes(n) == <<48 + n>>

\* Txn(func(txn) { txn.Put(key, value) }) on a log without middleware.
BTxn(key, value) ==
    /\ Len(wire.lines) < 2 * MaxWireTxn
    /\ LET id == TxnIdBytes(Len(wire.lines) \div 2 + 1)
       IN wire' = [wire EXCEPT
                     !.file = writeLineBytes(writeLineBytes(@, TransactionLine, id, <<>>), PutLine, key, value),
                     !.lines = @ \o <<Line(TransactionLine, id, <<>>), Line(PutLine, key, value)>>,
                     !.op = "Txn", !.out = <<>>, !.err = Nil]
    /\ UNCHANGED lvars

BForEach(slack) ==
    /\ wire.lines # <<>>
    /\ LET r == ForEachBytes(SplitLines(wire.file), slack, <<>>)
       IN wire' = [wire EXCEPT !.op = "ForEach", !.out = r.out, !.err = r.err]
    /\ UNCHANGED lvars

NextB ==
    \/ \E key \in WireKeys, value \in WireVals : BTxn(key, value)
    \/ \E slack \in WireSlacks : BForEach(slack)

SpecB == Init /\ [][NextB]_vars

\* C37: keys and values are opaque bytes: whatever bytes a committed Put
\* holds (a newline among them, or a length whose prefix holds the byte
\* 0x0A), ForEach returns without error and delivers every line written,
\* in order, each with exactly its key and value.
C37_OpaqueBytesRoundTrip ==
    wire.op = "ForEach" => wire.err = Nil /\ wire.out = wire.lines

\* ---------------------------------------------------------------- getKV
\* Inputs of getKV: a key-length prefix, key bytes, a value-length prefix
\* and value bytes, cut off at any length.
KeyLens == {U64(0), U64(1), U64(2), Rep(255, PrefixLen), <<248>> \o Rep(255, PrefixLen - 1), <<250>> \o Rep(255, PrefixLen - 1)}
ValLens == {U64(0), U64(1), U64(3), Rep(255, PrefixLen), <<240>> \o Rep(255, PrefixLen - 1)}
KeyBytes == {<<>>, <<65>>, <<65, 65>>}
ValBytes == {<<>>, <<66>>}

KInputs ==
    UNION {{SubSeq(kl \o k \o vl \o v, 1, n) : n \in 0 .. Len(kl \o k \o vl \o v)} :
            <<kl, k, vl, v>> \in KeyLens \X KeyBytes \X ValLens \X ValBytes}

\* One call of getKV; the function keeps no state between calls.
KgetKV(b, slack) ==
    /\ wire.op # "getKV"
    /\ wire' = [wire EXCEPT !.op = "getKV", !.b = b, !.slack = slack, !.kv = getKV(b, slack)]
    /\ UNCHANGED lvars

NextK == \E b \in KInputs, slack \in WireSlacks : KgetKV(b, slack)

SpecK == Init /\ [][NextK]_vars

\* A length prefix of b, or the bytes it announces, is cut off.
Truncated(b) ==
    \/ Len(b) < PrefixLen
    \/ LET kl == SubSeq(b, 1, PrefixLen)
       IN \/ ~IsInt(kl)
          \/ Len(b) < PrefixLen + ToInt(kl) + PrefixLen
          \/ LET vl == SubSeq(b, PrefixLen + ToInt(kl) + 1, PrefixLen + ToInt(kl) + PrefixLen)
             IN ~IsInt(vl) \/ Len(b) < PrefixLen + ToInt(kl) + PrefixLen + ToInt(vl)

\* C38: getKV never reads outside its input: on every byte string it
\* returns without a slice expression out of range and without reading
\* past the input's length, and it returns an empty key and an empty value
\* whenever a length prefix or the bytes it announces are cut off.
C38_getKVStaysInside ==
    wire.op = "getKV" =>
        /\ ~wire.kv.fault
        /\ ~wire.kv.over
        /\ Truncated(wire.b) => wire.kv.key = <<>> /\ wire.kv.value = <<>>

\* ------------------------------------------------ Export's reader handles
\* m.f.Reader() or m.af.Reader(): a handle on a file, not yet closed.
Reader(file, by) == [file |-> file, by |-> by, closes |-> 0]
\* rdr.Close(), called directly or by a defer.
Closed(h) == [h EXCEPT !.closes = @ + 1]

\* exporter.exportFrom: defer rsc.Close() runs on each of its returns.
exportFromRdr(h) == Closed(h)
\* MrT.exportArchive: rdr := m.af.Reader(); defer rdr.Close(); exportFrom(rdr).
exportArchiveRdr == Closed(exportFromRdr(Reader("af", "exportArchive")))
\* MrT.isInCurrent: rdr := m.f.Reader(); defer rdr.Close().
isInCurrentRdr == Closed(Reader("f", "isInCurrent"))

\* MrT.Export: the handles it and its callees acquire, as they are when
\* Export returns.
ExportReaders(m, txnID) ==
    IF txnID # 0 /\ txnID = m.ltxn THEN <<>>
    ELSE LET e0 == [err |-> Nil, state |-> NewMatch(txnID), hw |-> FALSE, data |-> <<>>]
             arch == txnID = 0 \/ ~isInCurrent(m, txnID)
             e1 == IF arch THEN exportArchive(m, e0, txnID) ELSE e0
             cr == Reader("f", "Export")
         IN <<Closed(IF e1.err # Nil THEN cr ELSE exportFromRdr(cr))>>
            \o (IF txnID # 0 THEN <<isInCurrentRdr>> ELSE <<>>)
            \o (IF arch THEN <<exportArchiveRdr>> ELSE <<>>)

EExport(txnID) ==
    /\ nexp < MaxExport
    /\ nexp' = nexp + 1
    /\ LET r == ExportOp(M, txnID)
       IN /\ w' = r.w
          /\ ret' = Ret("Export", "m", txnID, FALSE, r.err, r.w.data, 0)
    /\ rdrs' = ExportReaders(M, txnID)
    /\ UNCHANGED <<f, af, ltxn, closed, ug, txn, nm, committed, narch, ncomm, nfail, nopen, rt, impTxn, lastw, cb, hnd, lbuf, pc, own, view, disk, wire>>

NextE ==
    \/ \E n \in TxnLens : TxnBegin(Body(ug + 1, n), FALSE)
    \/ TxnCommit
    \/ \E b \in CommentKeys : Comment(b)
    \/ \E n \in SnapLens : Archive(Body(SnapKey + narch, n), FALSE)
    \/ \E tid \in TxnIds : EExport(tid)

SpecE == Init /\ [][NextE]_vars

\* C40: every reader handle that Export acquires on the active file or
\* the archive file has been closed exactly once when Export returns, on
\* the path of success and on each path of error.
C40_ExportReleasesReadersOnce ==
    ret.op = "Export" => \A i \in 1 .. Len(rdrs) : rdrs[i].closes = 1
====
